---- MODULE Spec2Model ----
(***************************************************************************)
(* RoarBot (src/mod.ts): the argument parser parseArgs, the command        *)
(* registry and its post subscribers, and the routing of inbound socket    *)
(* frames to the login and post subscriber lists.                          *)
(*                                                                         *)
(* Strings are sequences of atoms.  An atom is one character (" ", a tab,  *)
(* a digit) or an indivisible run of non-space characters ("Josh"), so     *)
(* that split(" "), join(" "), Number() and toLowerCase() are computed on  *)
(* the text and not assumed.                                               *)
(***************************************************************************)
EXTENDS Integers, Sequences, FiniteSets, TLC

VARIABLES
    pattern,    \* parseArgs harness: the pattern argument
    args,       \* parseArgs harness: the args argument
    result,     \* parseArgs harness: the value returned, or NotCalled
    events,     \* RoarBot._events: the login and the post subscriber lists
    commands,   \* RoarBot._commands
    username,   \* RoarBot._username
    token,      \* RoarBot._token
    conns,      \* the WebSockets opened by login(), with their listeners
    frames,     \* the message events handled so far, with what each invoked
    tasks,      \* the invocations of command subscribers that got to parseArgs
    replies,    \* the calls of a reply function (RoarBot.post) made so far
    console,    \* what was written with console.error
    uncaught,   \* exceptions and promise rejections that nothing caught
    lastCall,   \* the outcome of the last call of on(), command() or login()
    calls,      \* the on() and command() calls that returned, in call order
    contacted   \* what the last login() call reached: endpoint, server

parseVars == <<pattern, args, result>>
botVars == <<events, commands, username, token, conns, frames, tasks, replies,
             console, uncaught, lastCall, calls, contacted>>
vars == <<pattern, args, result, events, commands, username, token, conns,
          frames, tasks, replies, console, uncaught, lastCall, calls,
          contacted>>

(***************************************************************************)
(* Bounds of the model.                                                    *)
(***************************************************************************)
MaxSlots == 3       \* slots of a pattern in the parseArgs harness
MaxArgs == 3        \* tokens of an argument list in the parseArgs harness
MaxFrames == 2      \* message events handled
MaxConns == 1       \* successful login() calls
MaxUserSubs == 2    \* on() calls
MaxDocSlots == 2    \* slots of a pattern in the harness of the examples
MaxLogins == 2      \* WebSockets opened where login() may be called again

(***************************************************************************)
(* Strings.                                                                *)
(***************************************************************************)
EmptyStr == <<>>
Space == " "
WhiteSpace == {" ", "\t", "\n"}
Digits == {"0", "1", "2", "3", "4", "5", "6", "7", "8", "9"}

DigitVal(c) ==
    CASE c = "0" -> 0 [] c = "1" -> 1 [] c = "2" -> 2 [] c = "3" -> 3
      [] c = "4" -> 4 [] c = "5" -> 5 [] c = "6" -> 6 [] c = "7" -> 7
      [] c = "8" -> 8 [] c = "9" -> 9

\* JavaScript truthiness of `current`: undefined (no token at the index) and
\* the empty string are falsy.
Truthy(tokens, i) == i <= Len(tokens) /\ tokens[i] # EmptyStr

\* Mutant: only the token at the index is taken.
OnlyCurrent(tokens, i) == IF i <= Len(tokens) THEN tokens[i] ELSE EmptyStr

RECURSIVE JoinFrom(_, _)
\* tokens.slice(i).join(" "), i 1-based.
JoinFrom(tokens, i) ==
    IF i > Len(tokens) THEN EmptyStr
    ELSE IF i = Len(tokens) THEN tokens[i]
    ELSE tokens[i] \o <<Space>> \o JoinFrom(tokens, i + 1)

RECURSIVE TrimLeft(_)
TrimLeft(s) ==
    IF s # <<>> /\ Head(s) \in WhiteSpace THEN TrimLeft(Tail(s)) ELSE s

RECURSIVE TrimRight(_)
TrimRight(s) ==
    IF s # <<>> /\ s[Len(s)] \in WhiteSpace
    THEN TrimRight(SubSeq(s, 1, Len(s) - 1)) ELSE s

RECURSIVE DecimalValue(_)
DecimalValue(s) ==
    IF s = <<>> THEN 0
    ELSE 10 * DecimalValue(SubSeq(s, 1, Len(s) - 1)) + DigitVal(s[Len(s)])

\* Mutant: no text is NaN.
NeverNaN(s) == [nan |-> FALSE, val |-> 0]

\* Number(current): white space is trimmed, the empty string is 0, a run of
\* decimal digits is its value, and every other text over the model's atoms
\* is NaN.
NumberOf(s) ==
    LET t == TrimRight(TrimLeft(s)) IN
    IF \A k \in 1..Len(t) : t[k] \in Digits
    THEN [nan |-> FALSE, val |-> DecimalValue(t)]
    ELSE [nan |-> TRUE, val |-> 0]

\* JSON.stringify of a string without quotes or backslashes.
JSONstringify(s) == <<"\"">> \o s \o <<"\"">>

(***************************************************************************)
(* Patterns.  A bare PatternType is the slot {type} with no name and       *)
(* optional absent; `set` is the string[] of an enum type.                 *)
(***************************************************************************)
NoName == ""
EnumSet == << <<"a">>, <<"b">> >>

Slot(type, name, optional) ==
    [type |-> type, set |-> IF type = "enum" THEN EnumSet ELSE <<>>,
     name |-> name, optional |-> optional]

RECURSIVE JoinWith(_, _, _)
\* list.slice(i).join(sep), i 1-based, sep one atom.
JoinWith(list, sep, i) ==
    IF i > Len(list) THEN <<>>
    ELSE IF i = Len(list) THEN list[i]
    ELSE list[i] \o <<sep>> \o JoinWith(list, sep, i + 1)

\* `${type}`: the type's word, or the members of a string[] joined by commas.
TypeText(slot) ==
    IF slot.type = "enum" THEN JoinWith(slot.set, ",", 1) ELSE <<slot.type>>

\* type.map((t) => JSON.stringify(t)).join(", ")
SetText(set) ==
    JoinWith([k \in 1..Len(set) |-> JSONstringify(set[k])], ", ", 1)

\* Mutant: the name of a slot is left out of its description.
ReprWithoutName(slot) == TypeText(slot)

\* name ? `${slice.name} (${type})` : `${type}`, name being false for "".
Repr(slot) ==
    IF slot.name # NoName
    THEN <<slot.name, " ", "(">> \o TypeText(slot) \o <<")">>
    ELSE TypeText(slot)

(***************************************************************************)
(* Messages (the defaults of the constructor) and the two literals of      *)
(* parseArgs.                                                              *)
(***************************************************************************)
NoRepr == <<>>
Msg(kind, repr, str, set) == [kind |-> kind, repr |-> repr, str |-> str, set |-> set]

argsMissing(repr) == Msg("argsMissing", repr, EmptyStr, <<>>)
argsNotInSet(str, set) == Msg("argsNotInSet", NoRepr, str, set)
argNan(str) == Msg("argNan", NoRepr, str, <<>>)
tooManyArgs == Msg("tooManyArgs", NoRepr, EmptyStr, <<>>)
OptionalOrderMessage == Msg("optionalOrder", NoRepr, EmptyStr, <<>>)
FullNotLastMessage == Msg("fullNotLast", NoRepr, EmptyStr, <<>>)
NoMessage == Msg("none", NoRepr, EmptyStr, <<>>)

(***************************************************************************)
(* parseArgs.                                                              *)
(***************************************************************************)
StrValue(s) == [t |-> "string", s |-> s, n |-> 0]
NumValue(n) == [t |-> "number", s |-> EmptyStr, n |-> n]

Failure(message) == [error |-> TRUE, message |-> message, parsed |-> <<>>]
Success(parsed) == [error |-> FALSE, message |-> NoMessage, parsed |-> parsed]

\* Mutant: the optional-order check is dropped.
OptionalOrderNeverChecked(hadOptionals, optional) == FALSE

\* if (hadOptionals && !optional)
OptionalOrderViolated(hadOptionals, optional) == hadOptionals /\ ~optional

\* Mutant: an optional slot with no token is not skipped.
SkipsNothing(slot, tokens, i) == FALSE

\* if (!current) { if (optional) continue; ... }
SkipsSlot(slot, tokens, i) == ~Truthy(tokens, i) /\ slot.optional

\* Mutant: a required `full` slot with no token is a missing argument too.
MissingAlsoFull(slot, tokens, i) == ~Truthy(tokens, i) /\ ~slot.optional

\* if (!current) { ... else if (type !== "full") return argsMissing }
MissingArg(slot, tokens, i) ==
    ~Truthy(tokens, i) /\ ~slot.optional /\ slot.type # "full"

\* Mutant: every token counts as a member.
IncludesAnything(set, tokens, i) == TRUE

\* type.includes(current)
Includes(set, tokens, i) ==
    i <= Len(tokens) /\ \E k \in 1..Len(set) : set[k] = tokens[i]

\* Mutant: the check for a slot after a `full` slot is dropped.
FullNeverFollowed(pat, i) == FALSE

\* if (pattern[i + 1])
FullIsFollowed(pat, i) == i + 1 <= Len(pat)

\* Mutant: the number of tokens is not compared with the number of values.
NeverTooMany(hadFull, tokens, parsed) == FALSE

\* if (!hadFull && args.length !== parsed.length)
TooMany(hadFull, tokens, parsed) == ~hadFull /\ Len(tokens) # Len(parsed)

RECURSIVE ParseLoop(_, _, _, _, _, _)
\* One iteration of `for (const [i, slice] of pattern.entries())`, i 1-based,
\* followed by the rest of the loop and the code after it.
ParseLoop(pat, tokens, i, parsed, hadOptionals, hadFull) ==
    IF i > Len(pat)
    THEN IF TooMany(hadFull, tokens, parsed)
         THEN Failure(tooManyArgs)
         ELSE Success(parsed)
    ELSE
    LET slot == pat[i]
        had == hadOptionals \/ slot.optional
        current == IF i <= Len(tokens) THEN tokens[i] ELSE EmptyStr
    IN
    IF OptionalOrderViolated(hadOptionals, slot.optional)
    THEN Failure(OptionalOrderMessage)
    ELSE IF SkipsSlot(slot, tokens, i)
    THEN ParseLoop(pat, tokens, i + 1, parsed, had, hadFull)
    ELSE IF MissingArg(slot, tokens, i)
    THEN Failure(argsMissing(Repr(slot)))
    ELSE IF slot.type = "enum"
    THEN IF ~Includes(slot.set, tokens, i)
         THEN Failure(argsNotInSet(JSONstringify(current), SetText(slot.set)))
         ELSE ParseLoop(pat, tokens, i + 1, Append(parsed, StrValue(current)),
                        had, hadFull)
    ELSE IF slot.type = "string"
    THEN ParseLoop(pat, tokens, i + 1, Append(parsed, StrValue(current)),
                   had, hadFull)
    ELSE IF slot.type = "number"
    THEN IF NumberOf(current).nan
         THEN Failure(argNan(JSONstringify(current)))
         ELSE ParseLoop(pat, tokens, i + 1,
                        Append(parsed, NumValue(NumberOf(current).val)),
                        had, hadFull)
    ELSE \* case "full"
         IF FullIsFollowed(pat, i)
         THEN Failure(FullNotLastMessage)
         ELSE ParseLoop(pat, tokens, i + 1,
                        Append(parsed, StrValue(JoinFrom(tokens, i))),
                        had, TRUE)

parseArgs(pat, tokens) == ParseLoop(pat, tokens, 1, <<>>, FALSE, FALSE)

NotCalled == [error |-> TRUE, message |-> Msg("notCalled", NoRepr, EmptyStr, <<>>),
              parsed |-> <<>>]

(***************************************************************************)
(* Text of posts.                                                          *)
(***************************************************************************)
RECURSIVE SplitFrom(_, _, _, _)
\* s.split(" ") from atom k on: cur is the piece being read, acc the pieces
\* already cut.  Only the space separates; two spaces in a row cut an empty
\* piece.
SplitFrom(s, k, cur, acc) ==
    IF k > Len(s) THEN Append(acc, cur)
    ELSE IF s[k] = Space THEN SplitFrom(s, k + 1, EmptyStr, Append(acc, cur))
    ELSE SplitFrom(s, k + 1, Append(cur, s[k]), acc)

Split(s) == SplitFrom(s, 1, EmptyStr, <<>>)

LowerAtom(c) ==
    CASE c = "BearBot" -> "bearbot"
      [] c = "BEARBOT" -> "bearbot"
      [] c = "Add" -> "add"
      [] OTHER -> c

toLowerCase(s) == [k \in 1..Len(s) |-> LowerAtom(s[k])]

(***************************************************************************)
(* The bot: constructor options, users, posts and frames.                  *)
(***************************************************************************)
BotName == "BearBot"            \* the username given to login()
NoUser == "undefined"           \* _username before the first auth packet
NoToken == ""                   \* _token before the first auth packet
Admins == {"alice", "eve"}      \* options.admins
Banned == {"mallory", "eve"}    \* options.banned
Authors == {"alice", "bob", "mallory", "eve", BotName}

\* `@${this._username}`
MentionOf(user) == <<"@", user>>

\* The messages of the constructor that dispatch sends.
bannedMessage == Msg("banned", NoRepr, EmptyStr, <<>>)
adminLockedMessage == Msg("adminLocked", NoRepr, EmptyStr, <<>>)
errorMessage == Msg("error", NoRepr, EmptyStr, <<>>)
noCommand(str) == Msg("noCommand", NoRepr, str, <<>>)
helpText == Msg("helpCommands", NoRepr, EmptyStr, <<>>)
handlerText == Msg("handler", NoRepr, EmptyStr, <<>>)

\* Subscribers.  The subscriber of a command closes over its name and its
\* options (args, admin, fn); a callback given to on() is known by its
\* identity, and the callback "g" throws when it is called.
NoCommandSub == [kind |-> "noCommand", name |-> EmptyStr, admin |-> FALSE,
                 pat |-> <<>>, fn |-> "none"]
CommandSub(name, admin, pat, fn) ==
    [kind |-> "command", name |-> name, admin |-> admin, pat |-> pat, fn |-> fn]
UserSub(id) == [kind |-> "user", name |-> <<id>>, admin |-> FALSE,
                pat |-> <<>>, fn |-> "none"]
UserCallbacks == {"f", "g"}
Throws(sub) == sub.kind = "user" /\ sub.name = <<"g">>

Command(name, admin, pat) == [name |-> name, admin |-> admin, pattern |-> pat]

\* What a command's fn does when it is called: it returns, it throws, it
\* returns a promise that is settled later (or never), or it awaits a reply
\* of its own, as the built-in help command does.
FnBehaviours == {"return", "throw", "async", "reply"}

NoPost == [post_id |-> "", post_origin |-> "", p |-> EmptyStr, u |-> ""]
Post(id, origin, p, u) == [post_id |-> id, post_origin |-> origin, p |-> p, u |-> u]

\* A frame: `json` says whether its text is JSON at all, `cmd` is the
\* discriminant and `shape` what val holds.
AuthFrame(tok) ==
    [json |-> TRUE, cmd |-> "auth", shape |-> "token", token |-> tok, post |-> NoPost]
PostFrame(post) ==
    [json |-> TRUE, cmd |-> "post", shape |-> "post", token |-> NoToken, post |-> post]
OtherFrame(cmd, shape) ==
    [json |-> TRUE, cmd |-> cmd, shape |-> shape, token |-> NoToken, post |-> NoPost]
NotJson ==
    [json |-> FALSE, cmd |-> "", shape |-> "", token |-> NoToken, post |-> NoPost]

\* Mutant: the schema does not look at cmd.
AnyToken(fr) == fr.shape = "token"

\* AUTH_PACKET_SCHEMA.safeParse(...).success
IsAuthPacket(fr) == fr.cmd = "auth" /\ fr.shape = "token"
\* POST_PACKET_SCHEMA.safeParse(...).success
IsPostPacket(fr) == fr.cmd = "post" /\ fr.shape = "post"

(***************************************************************************)
(* Replies and the continuation of a command subscriber.                   *)
(*                                                                         *)
(* The operators below work on a record `st` of the variables a frame can  *)
(* change (replies, tasks, console, uncaught) and of what the frame        *)
(* invoked (invoked, threw).  A task records what happened in it: `fn` is  *)
(* how fn behaved if it was called, `raised` what threw inside the         *)
(* function handleError ran ("fn", or "relay" for the reply that relays a  *)
(* parse error).                                                           *)
(***************************************************************************)
LogError(st, entry) == [st EXCEPT !.console = Append(@, entry)]
Unhandled(st, entry) == [st EXCEPT !.uncaught = Append(@, entry)]

\* Mutant: post() sends its request whatever the token is.
AlwaysLoggedIn(tok) == FALSE

\* if (!this._token) throw new Error("The bot is not logged in.")
NotLoggedIn(tok) == tok = NoToken

\* The options of a reply that is given none: dispatch, the help command and
\* the handlers of the model call reply(content).
NoOptions == <<>>

\* {replies: [post_id], chat: post_origin, ...options}
ReplyOptions(post, options) ==
    LET bound == [replies |-> <<post.post_id>>, chat |-> post.post_origin] IN
    [k \in DOMAIN bound \cup DOMAIN options |->
        IF k \in DOMAIN options THEN options[k] ELSE bound[k]]

\* reply(content) for the post of frame f, that is this.post(content,
\* {replies: [post_id], chat: post_origin}): with no token bound post()
\* rejects without a request; otherwise the request is in flight.  `owner`
\* is the task that awaits the promise, 0 when nothing awaits it.
StartReply(st, tok, f, post, content, owner) ==
    [st EXCEPT !.replies = Append(@,
        [frame |-> f, chat |-> ReplyOptions(post, NoOptions).chat,
         reply_to |-> ReplyOptions(post, NoOptions).replies[1],
         content |-> content, owner |-> owner,
         token |-> tok,
         status |-> IF NotLoggedIn(tok) THEN "failed" ELSE "pending"])]

\* reply(...) that nothing awaits and nothing catches (`reply(x); return;`).
FloatingReply(st, tok, f, post, content) ==
    LET s1 == StartReply(st, tok, f, post, content, 0) IN
    IF NotLoggedIn(tok)
    THEN Unhandled(s1, [kind |-> "rejection", frame |-> f])
    ELSE s1

SetPc(st, t, pc) == [st EXCEPT !.tasks[t].pc = pc]

\* Mutant: the inner catch rethrows, so the subscriber's promise rejects.
SecondaryFailureRethrown(st, t) ==
    Unhandled(SetPc(st, t, "rejected"),
              [kind |-> "rejection", frame |-> st.tasks[t].frame])

\* Mutant: the inner catch sends the error message once more.
SecondaryFailureRetried(st, t) ==
    SetPc([LogError(st, [kind |-> "secondary", task |-> t]) EXCEPT
              !.replies = Append(@, [st.replies[Len(st.replies)] EXCEPT
                                        !.status = "pending", !.owner = 0])],
          t, "done")

\* catch (f) { console.error("Another error occured ...", f) }
SecondaryFailure(st, t) ==
    SetPc(LogError(st, [kind |-> "secondary", task |-> t]), t, "done")

\* Mutant: handleError has no catch, the exception leaves the subscriber.
CatchNothing(st, tok, f, post, t) ==
    Unhandled(SetPc(st, t, "rejected"), [kind |-> "rejection", frame |-> f])

\* catch (e) { console.error(e); try { await reply(this._messages.error) } ... }
Catch(st, tok, f, post, t) ==
    LET s1 == LogError(st, [kind |-> "error", task |-> t])
        s2 == StartReply(s1, tok, f, post, errorMessage, t)
        s3 == [s2 EXCEPT !.tasks[t].errorReplies = @ + 1]
    IN IF NotLoggedIn(tok)
       THEN SecondaryFailure(s3, t)
       ELSE SetPc(s3, t, "awaitErrorReply")

\* What threw in task t, given where it waited.
Raise(st, t, pc) ==
    [st EXCEPT !.tasks[t].raised = IF pc = "awaitReply" THEN "relay" ELSE "fn",
               !.tasks[t].promise = IF pc = "awaitReply" THEN @ ELSE "rejected"]

\* The promise fn returned is fulfilled, if fn returned one that is pending.
Fulfil(st, t) ==
    [st EXCEPT !.tasks[t].promise = IF @ = "pending" THEN "fulfilled" ELSE @]

\* `await reply(content)` inside the function handleError runs, by the
\* wrapper itself (a parse error) or by fn: `pc` is where the task waits.
AwaitedReply(st, tok, f, post, t, content, pc) ==
    LET s1 == StartReply(st, tok, f, post, content, t) IN
    IF NotLoggedIn(tok)
    THEN Catch(Raise(s1, t, pc), tok, f, post, t)
    ELSE SetPc(s1, t, pc)

\* Mutant: the subscriber does not wait for what fn returns.
NoAwait == "done"

\* Where the subscriber is after fn returned a pending promise:
\* `await options.fn(reply, parsed.parsed, post)`.
AwaitFn == "awaitHandler"

\* Mutant: fn is not called by the subscriber but queued for later.
CallFnLater(st, tok, f, post, t, hb, content) == st

\* options.fn(reply, parsed.parsed, post) behaving as `hb`; `content` is what
\* an fn that replies sends.
CallFn(st, tok, f, post, t, hb, content) ==
    LET s1 == [st EXCEPT !.tasks[t].ran = @ + 1, !.tasks[t].fn = hb,
                         !.tasks[t].promise = "pending",
                         !.tasks[t].given =
                             [args |-> st.tasks[t].parsed.parsed, post |-> post]]
    IN
    CASE hb = "return" -> SetPc(Fulfil(s1, t), t, "done")
      [] hb = "throw" -> Catch(Raise(s1, t, "fn"), tok, f, post, t)
      [] hb = "async" -> SetPc(s1, t, AwaitFn)
      [] hb = "reply" -> AwaitedReply(s1, tok, f, post, t, content, "awaitFnReply")

(***************************************************************************)
(* The subscribers of the post event.  `ctx` holds what a subscriber       *)
(* reads: the frame's index f and post, the token and username bound when  *)
(* the frame is handled, the command list, and how fn behaves (hb).        *)
(***************************************************************************)
\* Mutant: the ban list is not consulted (the 1.4.0 regression).
NobodyBanned(u) == FALSE

\* this._banned.includes(post.u)
IsBanned(u) == u \in Banned

\* Mutant: the admin flag is not enforced.
NothingLocked(sub, u) == FALSE

\* options.admin && !this._admins.includes(post.u)
AdminLocked(sub, u) == sub.admin /\ u \notin Admins

\* Mutant: the admin flag is looked at before the ban list.
AdminFirst(sub, u) ==
    IF AdminLocked(sub, u) THEN adminLockedMessage
    ELSE IF IsBanned(u) THEN bannedMessage
    ELSE NoMessage

\* The notice that ends the subscriber before parseArgs: the ban check
\* (reply and return), then the admin check (reply and return).
Denial(sub, u) ==
    IF IsBanned(u) THEN bannedMessage
    ELSE IF AdminLocked(sub, u) THEN adminLockedMessage
    ELSE NoMessage

\* Mutant: the mention is compared as it is written (before 1.5.2).
MentionsExactly(split, user) == split[1] = MentionOf(user)

\* split[0].toLowerCase() === `@${this.username}`.toLowerCase()
Mentions(split, user) == toLowerCase(split[1]) = toLowerCase(MentionOf(user))

\* Mutant: the second token is not required to be there (before 1.4.0, "The
\* command undefined doesn't exist!" for a post that only pings the bot).
NoCommandWithoutToken(st, ctx) ==
    LET split == Split(ctx.post.p) IN
    IF /\ Mentions(split, ctx.user)
       /\ ~\E k \in 1..Len(ctx.commands) :
             Len(split) >= 2 /\ ctx.commands[k].name = split[2]
    THEN FloatingReply(st, ctx.tok, ctx.f, ctx.post,
                       noCommand(IF Len(split) >= 2 THEN JSONstringify(split[2])
                                 ELSE <<"undefined">>))
    ELSE st

\* The subscriber the constructor registers first.
NoCommandSubscriber(st, ctx) ==
    LET split == Split(ctx.post.p) IN
    IF /\ Mentions(split, ctx.user)
       /\ Truthy(split, 2)
       /\ ~\E k \in 1..Len(ctx.commands) : ctx.commands[k].name = split[2]
    THEN FloatingReply(st, ctx.tok, ctx.f, ctx.post,
                       noCommand(JSONstringify(split[2])))
    ELSE st

\* Mutant: the name is compared without regard to letter case, unlike the
\* search of the command-not-found subscriber.
NamedAnyCase(split, name) ==
    Len(split) >= 2 /\ toLowerCase(split[2]) = toLowerCase(name)

\* split[1] === name
Named(split, name) == Len(split) >= 2 /\ split[2] = name

\* What fn was called with, before it is called.
NotGiven == [args |-> <<>>, post |-> NoPost]

\* Mutant: the result of parseArgs is taken for a success.
NeverFailed(parsed) == FALSE

\* if (parsed.error)
ParseFailed(parsed) == parsed.error

\* The subscriber command() registers, up to its first suspension.
CommandSubscriber(sub, i, st, ctx) ==
    LET split == Split(ctx.post.p)
        t == Len(st.tasks) + 1
    IN
    IF ctx.post.u = ctx.user THEN st
    ELSE IF ~Mentions(split, ctx.user) \/ ~Named(split, sub.name)
    THEN st
    ELSE
    IF Denial(sub, ctx.post.u) # NoMessage
    THEN FloatingReply(st, ctx.tok, ctx.f, ctx.post, Denial(sub, ctx.post.u))
    ELSE
    LET parsed == parseArgs(sub.pat, SubSeq(split, 3, Len(split)))
        s1 == [st EXCEPT !.tasks = Append(@,
                 [frame |-> ctx.f, sub |-> i, name |-> sub.name,
                  parsed |-> parsed, pc |-> "start", ran |-> 0,
                  fn |-> "none", raised |-> "none", errorReplies |-> 0,
                  given |-> NotGiven, promise |-> "none"])]
    IN IF ParseFailed(parsed)
       THEN AwaitedReply(s1, ctx.tok, ctx.f, ctx.post, t, parsed.message,
                         "awaitReply")
       ELSE CallFn(s1, ctx.tok, ctx.f, ctx.post, t,
                   IF sub.fn = "help" THEN "reply" ELSE ctx.hb,
                   IF sub.fn = "help" THEN helpText ELSE handlerText)

\* What a callback given to on() finds when it runs: the token it is passed
\* (login callbacks) and what bot.username and the bot's token are by then.
Seen(ctx) == [arg |-> ctx.arg, token |-> ctx.tok, username |-> ctx.user]

\* A callback given to on(): all the model knows is whether it throws.
UserSubscriber(sub, st, ctx) ==
    LET s1 == [st EXCEPT !.seen = Append(@, Seen(ctx))] IN
    IF Throws(sub)
    THEN Unhandled([s1 EXCEPT !.threw = TRUE],
                   [kind |-> "exception", frame |-> ctx.f])
    ELSE s1

(***************************************************************************)
(* Command aliases.  mod.ts of this version (1.5.2) has none: they are     *)
(* modelled from the specification's registry contract (a command has a    *)
(* name and aliases; a name or alias is held by one command only; the      *)
(* command token of a post is matched against names and aliases).          *)
(***************************************************************************)
AliasedCommand(name, aliases, admin, pat) ==
    [name |-> name, aliases |-> aliases, admin |-> admin, pattern |-> pat]

AliasedSub(name, aliases, admin, pat, fn) ==
    [kind |-> "aliased", name |-> name, aliases |-> aliases, admin |-> admin,
     pat |-> pat, fn |-> fn]

NoCommandAliasedSub ==
    [kind |-> "noCommandAliased", name |-> EmptyStr, admin |-> FALSE,
     pat |-> <<>>, fn |-> "none"]

\* The name and the aliases of a command, a subscriber or a registration.
NamesOf(cmd) == {cmd.name} \cup {cmd.aliases[k] : k \in 1..Len(cmd.aliases)}

\* "If no registered command's name or alias exactly matches the second
\* token, and a second token is present, emit a command-not-found notice."
NoCommandAliased(st, ctx) ==
    LET split == Split(ctx.post.p) IN
    IF /\ Mentions(split, ctx.user)
       /\ Truthy(split, 2)
       /\ ~\E k \in 1..Len(ctx.commands) : split[2] \in NamesOf(ctx.commands[k])
    THEN FloatingReply(st, ctx.tok, ctx.f, ctx.post,
                       noCommand(JSONstringify(split[2])))
    ELSE st

\* The subscriber of a command with aliases: the subscriber of a command,
\* answering to the name and to each alias.
AliasedSubscriber(sub, i, st, ctx) ==
    LET split == Split(ctx.post.p)
        word == IF Len(split) >= 2 /\ split[2] \in NamesOf(sub)
                THEN split[2] ELSE sub.name
    IN CommandSubscriber(CommandSub(word, sub.admin, sub.pat, sub.fn), i, st, ctx)

Invoke(sub, i, st, ctx) ==
    CASE sub.kind = "noCommand" -> NoCommandSubscriber(st, ctx)
      [] sub.kind = "command" -> CommandSubscriber(sub, i, st, ctx)
      [] sub.kind = "user" -> UserSubscriber(sub, st, ctx)
      [] sub.kind = "noCommandAliased" -> NoCommandAliased(st, ctx)
      [] sub.kind = "aliased" -> AliasedSubscriber(sub, i, st, ctx)

\* Mutant: each callback runs in a try/catch of its own.
NeverAborted(st) == FALSE

\* An exception thrown by a callback leaves forEach.
Aborted(st) == st.threw

RECURSIVE ForEach(_, _, _, _)
\* this._events[event].forEach((callback) => callback(...)), from index i.
ForEach(subs, i, st, ctx) ==
    IF i > Len(subs) \/ Aborted(st) THEN st
    ELSE ForEach(subs, i + 1,
                 Invoke(subs[i], i, [st EXCEPT !.invoked = Append(@, i)], ctx),
                 ctx)

(***************************************************************************)
(* State after `new RoarBot(options)`, and the operations.                 *)
(***************************************************************************)
\* Mutant: on() puts the callback first.
Unshift(list, callback) == <<callback>> \o list

\* this._events[event].push(callback)
Push(list, callback) == Append(list, callback)

\* Mutant: the list of commands is not searched for the name.
NeverTaken(cmds, name) == FALSE

\* this._commands.some((command) => command.name === name)
NameTaken(cmds, name) == \E k \in 1..Len(cmds) : cmds[k].name = name

NumberPattern == <<Slot("number", NoName, FALSE)>>

\* The command() calls the model makes: (name, options.admin, options.args).
AddCommand == [name |-> <<"add">>, admin |-> FALSE, pat |-> NumberPattern]
LockCommand == [name |-> <<"lock">>, admin |-> TRUE, pat |-> NumberPattern]
HelpCommand == [name |-> <<"help">>, admin |-> FALSE, pat |-> <<>>]
Registrations == {AddCommand, LockCommand, HelpCommand}

Mention == MentionOf(BotName)
Words(tokens) == JoinFrom(tokens, 1)

\* The contents of the posts the model receives.
AddValid == Words(<<Mention, <<"add">>, <<"7">>>>)
AddInvalid == Words(<<<<"@", "bearbot">>, <<"add">>, <<"x">>>>)
AddMissing == Words(<<Mention, <<"add">>>>)
AddExcess == Words(<<Mention, <<"add">>, <<"7">>, <<"7">>>>)
LockValid == Words(<<Mention, <<"lock">>, <<"7">>>>)
LockInvalid == Words(<<Mention, <<"lock">>, <<"x">>>>)
HelpText == Words(<<Mention, <<"help">>>>)
Unknown == Words(<<Mention, <<"nope">>>>)
AddShout == Words(<<<<"@", "BEARBOT">>, <<"add">>, <<"7">>>>)
AddCapital == Words(<<Mention, <<"Add">>, <<"7">>>>)
PingSpace == Words(<<Mention, EmptyStr>>)
\* `@${this.username}` while no auth packet has set the username.
AddUndefined == Words(<<MentionOf(NoUser), <<"add">>, <<"7">>>>)
AddTabs == Mention \o <<"\t", "add", "\t", "7">>
AddNewline == Mention \o <<Space, "add", "\n", "7">>
AddSpaces == Words(<<Mention, <<"add">>, EmptyStr, <<"7">>>>)
Contents ==
    {AddValid, AddInvalid, AddMissing, AddExcess, LockValid, LockInvalid,
     HelpText, Unknown, Mention, <<"hello">>, AddShout, AddCapital, PingSpace,
     AddTabs, AddNewline, AddSpaces}

\* The posts of the dispatch specification: every content by a plain user,
\* and the contents that tell the other users apart (alice is an admin,
\* mallory is banned, eve is both, and the bot reads its own posts).
Posts ==
    {Post("p1", "home", p, "bob") : p \in Contents}
        \cup {Post("p2", "chat1", p, "alice") : p \in {LockValid, LockInvalid}}
        \cup {Post("p1", "home", p, "mallory") :
                 p \in {AddValid, AddInvalid, AddMissing, AddExcess, LockValid,
                        HelpText}}
        \cup {Post("p1", "home", p, "eve") : p \in {AddValid, LockValid, LockInvalid}}
        \cup {Post("p1", "home", p, BotName) : p \in {AddValid, Unknown}}

\* Packets of another cmd whose val would do for an auth or a post packet.
UlistWithToken == [OtherFrame("ulist", "token") EXCEPT !.token = "tok2"]
UlistWithPost ==
    [OtherFrame("ulist", "post") EXCEPT !.post = Post("p1", "home", AddValid, "bob")]

OtherFrames ==
    {OtherFrame("ulist", "other"), OtherFrame("post", "bad"),
     OtherFrame("auth", "bad"), NotJson, UlistWithToken, UlistWithPost}

Input(fr, hb) == [fr |-> fr, hb |-> hb]

\* A frame together with what fn does if the frame gets it called.
Inputs ==
    {Input(AuthFrame("tok1"), "return")}
        \cup {Input(PostFrame(post), "return") : post \in Posts}
        \cup {Input(PostFrame(post), hb) :
                 post \in {Post("p1", "home", AddValid, "bob"),
                           Post("p2", "chat1", LockValid, "alice")},
                 hb \in FnBehaviours}
        \cup {Input(PostFrame(Post("p1", "home", AddUndefined, "bob")), hb) :
                 hb \in FnBehaviours}
        \cup {Input(fr, "return") : fr \in OtherFrames}

\* The frames of the subscriber-list specification.
EventInputs ==
    {Input(AuthFrame("tok1"), "return"),
     Input(AuthFrame("tok2"), "return"),
     Input(PostFrame(Post("p1", "home", AddValid, "bob")), "return"),
     Input(PostFrame(Post("p1", "home", Unknown, "bob")), "return"),
     Input(PostFrame(Post("p1", "home", <<"hello">>, "bob")), "return"),
     Input(OtherFrame("ulist", "other"), "return")}

\* The frames of the specification with several dispatches in flight.
ConcInputs ==
    {Input(AuthFrame("tok1"), "return")}
        \cup {Input(PostFrame(Post("p1", "home", AddValid, "bob")), hb) :
                 hb \in FnBehaviours}
        \cup {Input(PostFrame(Post("p2", "chat1", AddInvalid, "alice")), "return"),
              Input(PostFrame(Post("p2", "chat1", AddValid, "mallory")), "return")}

Init ==
    /\ pattern = <<>>
    /\ args = <<>>
    /\ result = NotCalled
    /\ \E help \in BOOLEAN :
          /\ commands = IF help THEN <<Command(<<"help">>, FALSE, <<>>)>> ELSE <<>>
          /\ events =
                [login |-> <<>>,
                 post |-> IF help
                          THEN Push(Push(<<>>, NoCommandSub),
                                    CommandSub(<<"help">>, FALSE, <<>>, "help"))
                          ELSE Push(<<>>, NoCommandSub)]
    /\ username = NoUser
    /\ token = NoToken
    /\ conns = <<>>
    /\ frames = <<>>
    /\ tasks = <<>>
    /\ replies = <<>>
    /\ console = <<>>
    /\ uncaught = <<>>
    /\ lastCall = "none"
    /\ contacted = <<>>
    /\ calls = <<>>

UserSubCount ==
    Cardinality({k \in 1..Len(events.login) : events.login[k].kind = "user"})
        + Cardinality({k \in 1..Len(events.post) : events.post[k].kind = "user"})

\* on(event, callback)
On(event, id) ==
    /\ events' = [events EXCEPT ![event] = Push(@, UserSub(id))]
    /\ lastCall' = "ok"
    /\ calls' = Append(calls, [event |-> event, sub |-> UserSub(id)])
    /\ UNCHANGED <<commands, username, token, conns, frames, tasks, replies,
                   console, uncaught, parseVars, contacted>>

\* command(name, options): throws when the name is taken, else adds the
\* command and its post subscriber.
CommandCall(reg) ==
    /\ IF NameTaken(commands, reg.name)
       THEN /\ lastCall' = "duplicate"
            /\ UNCHANGED <<commands, events, calls>>
       ELSE /\ commands' = Append(commands, Command(reg.name, reg.admin, reg.pat))
            /\ events' = [events EXCEPT
                            !.post = Push(@, CommandSub(reg.name, reg.admin,
                                                        reg.pat, "user"))]
            /\ lastCall' = "ok"
            /\ calls' = Append(calls,
                  [event |-> "post",
                   sub |-> CommandSub(reg.name, reg.admin, reg.pat, "user")])
    /\ UNCHANGED <<username, token, conns, frames, tasks, replies, console,
                   uncaught, parseVars, contacted>>

\* Mutant: login() does not look at the token.
NeverLoggedIn(tok) == FALSE

\* if (this._token)
LoggedIn(tok) == tok # NoToken

\* login(username, password): throws when a token is bound or when the login
\* endpoint answers with an error (loginOk false), else opens a WebSocket with
\* the two message listeners and the close listener.
Login(user, loginOk) ==
    /\ IF LoggedIn(token)
       THEN /\ lastCall' = "alreadyLoggedIn"
            /\ contacted' = <<>>
            /\ UNCHANGED conns
       ELSE IF ~loginOk
       THEN /\ lastCall' = "loginFailed"
            /\ contacted' = <<"endpoint">>
            /\ UNCHANGED conns
       ELSE /\ conns' = Append(conns, [username |-> user, open |-> TRUE])
            /\ contacted' = <<"endpoint", "server">>
            /\ lastCall' = "ok"
    /\ UNCHANGED <<events, commands, username, token, frames, tasks, replies,
                   console, uncaught, calls, parseVars>>

\* Mutant: the listener waits for the promises of the subscribers, so that
\* a message event is handled only when no subscriber is still running.
AwaitsAll(ts) == \E t \in 1..Len(ts) : ts[t].pc \notin {"done", "rejected"}

\* Whether a message listener has to wait for subscribers called for
\* earlier frames: forEach((callback) => callback(...)) drops the promise an
\* async subscriber returns, so it waits for none.
Awaited(ts) == FALSE

\* Mutant: the fields are assigned after the subscribers have run.
AssignedAfterwards(before, after) == before

\* What a field holds while forEach runs: `this._username = username;
\* this._token = token;` come before `this._events.login.forEach(...)`.
AtForEach(before, after) == after

\* The listeners of WebSocket c can be run for a frame: the WebSocket is
\* open and the listener has nothing to wait for.
Listening(c) ==
    /\ c \in 1..Len(conns)
    /\ conns[c].open
    /\ ~Awaited(tasks)

\* A message event on an open WebSocket: the listener for auth packets, then
\* the listener for post packets, each up to the first suspension of every
\* subscriber it calls.
Message(c, fr, hb) ==
    /\ Listening(c)
    /\ LET f == Len(frames) + 1
           auth == fr.json /\ IsAuthPacket(fr)
           post == fr.json /\ IsPostPacket(fr)
           user1 == IF auth THEN conns[c].username ELSE username
           tok1 == IF auth THEN fr.token ELSE token
           ctx == [f |-> f, post |-> fr.post, arg |-> fr.token,
                   tok |-> AtForEach(token, tok1),
                   user |-> AtForEach(username, user1),
                   commands |-> commands, hb |-> hb]
           st0 == [replies |-> replies, tasks |-> tasks, console |-> console,
                   uncaught |-> uncaught, invoked |-> <<>>, threw |-> FALSE,
                   seen |-> <<>>]
           st1 == IF ~fr.json
                  THEN Unhandled(st0, [kind |-> "exception", frame |-> f])
                  ELSE IF auth THEN ForEach(events.login, 1, st0, ctx)
                  ELSE st0
           st2 == IF ~fr.json
                  THEN Unhandled(st1, [kind |-> "exception", frame |-> f])
                  ELSE IF post THEN ForEach(events.post, 1, st1, ctx)
                  ELSE st1
       IN /\ username' = user1
          /\ token' = tok1
          /\ frames' = Append(frames,
                [conn |-> c, frame |-> fr,
                 event |-> IF auth THEN "login" ELSE IF post THEN "post" ELSE "none",
                 nsubs |-> IF auth THEN Len(events.login)
                           ELSE IF post THEN Len(events.post) ELSE 0,
                 user |-> user1,
                 invoked |-> st2.invoked, threw |-> st2.threw,
                 seen |-> st2.seen])
          /\ replies' = st2.replies
          /\ tasks' = st2.tasks
          /\ console' = st2.console
          /\ uncaught' = st2.uncaught
    /\ UNCHANGED <<events, commands, conns, lastCall, calls, parseVars, contacted>>

\* The close event of a WebSocket: the listener only logs.
Close(c) ==
    /\ c \in 1..Len(conns)
    /\ conns[c].open
    /\ conns' = [conns EXCEPT ![c].open = FALSE]
    /\ UNCHANGED <<events, commands, username, token, frames, tasks, replies,
                   console, uncaught, lastCall, calls, parseVars, contacted>>

Resume(st) ==
    /\ replies' = st.replies
    /\ tasks' = st.tasks
    /\ console' = st.console
    /\ uncaught' = st.uncaught
    /\ UNCHANGED <<events, commands, username, token, conns, frames, lastCall,
                   calls, parseVars, contacted>>

\* Mutant: the reply function answers the post received last.
LatestPost(f) == frames[Len(frames)].frame.post

\* The post a continuation of frame f replies to: `parsed` is a constant of
\* the listener call that received the frame, captured by its reply function.
BoundPost(f) == frames[f].frame.post

\* The request of reply r ends, with a post (ok) or with an error; what
\* awaits the promise goes on.
ReplySettles(r, ok) ==
    /\ r \in 1..Len(replies)
    /\ replies[r].status = "pending"
    /\ LET t == replies[r].owner
           f == replies[r].frame
           post == BoundPost(f)
           st0 == [replies |-> [replies EXCEPT
                                  ![r].status = IF ok THEN "sent" ELSE "failed"],
                   tasks |-> tasks, console |-> console, uncaught |-> uncaught,
                   invoked |-> <<>>, threw |-> FALSE, seen |-> <<>>]
       IN Resume(IF t = 0
                 THEN IF ok THEN st0
                      ELSE Unhandled(st0, [kind |-> "rejection", frame |-> f])
                 ELSE IF tasks[t].pc = "awaitErrorReply"
                 THEN IF ok THEN SetPc(st0, t, "done")
                      ELSE SecondaryFailure(st0, t)
                 ELSE IF ok THEN SetPc(Fulfil(st0, t), t, "done")
                      ELSE Catch(Raise(st0, t, tasks[t].pc), token, f, post, t))

\* The promise returned by fn for task t is settled.
FnSettles(t, ok) ==
    /\ t \in 1..Len(tasks)
    /\ tasks[t].pc = "awaitHandler"
    /\ LET f == tasks[t].frame
           post == BoundPost(f)
           st0 == [replies |-> replies, tasks |-> tasks, console |-> console,
                   uncaught |-> uncaught, invoked |-> <<>>, threw |-> FALSE,
                   seen |-> <<>>]
       IN Resume(IF ok THEN SetPc(Fulfil(st0, t), t, "done")
                 ELSE Catch(Raise(st0, t, "awaitHandler"), token, f, post, t))

\* The bot is set up (on(), command()) before login() is first called.
Setup == conns = <<>>

\* login() is called while the model has room for another WebSocket, or
\* while it must throw.
MayLogin == Len(conns) < MaxConns \/ token # NoToken

\* Dispatch: commands are registered, the bot logs in, and frames arrive.
Next ==
    \/ Setup /\ \E reg \in Registrations : CommandCall(reg)
    \/ MayLogin /\ \E loginOk \in BOOLEAN : Login(BotName, loginOk)
    \/ Len(frames) < MaxFrames
          /\ \E c \in 1..Len(conns), in \in Inputs : Message(c, in.fr, in.hb)
    \/ \E r \in 1..Len(replies), ok \in BOOLEAN : ReplySettles(r, ok)
    \/ \E t \in 1..Len(tasks), ok \in BOOLEAN : FnSettles(t, ok)

Spec == Init /\ [][Next]_vars

\* Subscriber lists: callbacks and commands are registered in any order.
NextEvents ==
    \/ Setup /\ UserSubCount < MaxUserSubs
          /\ \E event \in {"login", "post"}, id \in UserCallbacks : On(event, id)
    \/ Setup /\ CommandCall(AddCommand)
    \/ MayLogin /\ Login(BotName, TRUE)
    \/ Len(frames) < MaxFrames
          /\ \E c \in 1..Len(conns), in \in EventInputs : Message(c, in.fr, in.hb)
    \/ \E r \in 1..Len(replies), ok \in BOOLEAN : ReplySettles(r, ok)

SpecEvents == Init /\ [][NextEvents]_vars

\* Several dispatches in flight: one command, and one more frame.
NextConc ==
    \/ Setup /\ commands = <<>> /\ CommandCall(AddCommand)
    \/ MayLogin /\ commands # <<>> /\ Login(BotName, TRUE)
    \/ Len(frames) < MaxFrames + 1
          /\ \E c \in 1..Len(conns), in \in ConcInputs : Message(c, in.fr, in.hb)
    \/ \E r \in 1..Len(replies), ok \in BOOLEAN : ReplySettles(r, ok)
    \/ \E t \in 1..Len(tasks), ok \in BOOLEAN : FnSettles(t, ok)

InitConc == Init /\ commands = <<>>

SpecConc == InitConc /\ [][NextConc]_vars

\* The frames of the specification with several login() calls.
LoginInputs ==
    {Input(AuthFrame("tok1"), "return"),
     Input(PostFrame(Post("p1", "home", AddValid, "bob")), "return"),
     Input(PostFrame(Post("p1", "home", Unknown, "bob")), "return")}

\* Several login() calls: login() may be called again before the auth
\* packet of an earlier call has arrived, every open WebSocket receives the
\* frames the server sends to the account, and a WebSocket may close.
NextLogin ==
    \/ Setup /\ commands = <<>> /\ CommandCall(AddCommand)
    \/ (Len(conns) < MaxLogins \/ token # NoToken) /\ commands # <<>>
          /\ \E loginOk \in BOOLEAN : Login(BotName, loginOk)
    \/ Len(frames) < MaxFrames + 1
          /\ \E c \in 1..Len(conns), in \in LoginInputs : Message(c, in.fr, in.hb)
    \/ \E r \in 1..Len(replies), ok \in BOOLEAN : ReplySettles(r, ok)
    \/ \E c \in 1..Len(conns) : Close(c)

SpecLogin == InitConc /\ [][NextLogin]_vars

(***************************************************************************)
(* The registry with aliases (modelled from the specification).            *)
(***************************************************************************)
AliasReg(name, aliases, admin) ==
    [name |-> name, aliases |-> aliases, admin |-> admin, pat |-> NumberPattern]

\* The register() calls the model makes: names and aliases that collide with
\* each other in every way (name with name, name with alias, alias with
\* name, alias with alias), and one that collides with nothing.
AliasRegistrations ==
    {AliasReg(<<"add">>, << <<"plus">>, <<"sum">> >>, FALSE),
     AliasReg(<<"add">>, <<>>, FALSE),
     AliasReg(<<"plus">>, <<>>, FALSE),
     AliasReg(<<"total">>, << <<"add">> >>, FALSE),
     AliasReg(<<"lock">>, << <<"sum">> >>, TRUE),
     AliasReg(<<"nop">>, << <<"n">> >>, FALSE)}

\* Mutant: only names are compared with names (aliases override commands).
CollidesByName(cmds, reg) == \E k \in 1..Len(cmds) : cmds[k].name = reg.name

\* "command.name or any alias already exists as a name or alias of a
\* previously registered command"
Collides(cmds, reg) ==
    \E k \in 1..Len(cmds) : NamesOf(cmds[k]) \cap NamesOf(reg) # {}

\* register(command): fails without a change when a name or alias is held
\* already, else adds the command and its post subscriber.
Register(reg) ==
    /\ IF Collides(commands, reg)
       THEN /\ lastCall' = "duplicate"
            /\ UNCHANGED <<commands, events, calls>>
       ELSE /\ commands' = Append(commands,
                  AliasedCommand(reg.name, reg.aliases, reg.admin, reg.pat))
            /\ events' = [events EXCEPT
                            !.post = Push(@, AliasedSub(reg.name, reg.aliases,
                                                        reg.admin, reg.pat, "user"))]
            /\ lastCall' = "ok"
            /\ calls' = Append(calls,
                  [event |-> "post",
                   sub |-> AliasedSub(reg.name, reg.aliases, reg.admin, reg.pat,
                                      "user")])
    /\ UNCHANGED <<username, token, conns, frames, tasks, replies, console,
                   uncaught, parseVars, contacted>>

\* The posts of the specification with aliases.
AliasPosts ==
    {Post("p1", "home", Words(<<Mention, word, <<"7">>>>), "bob") :
        word \in {<<"add">>, <<"plus">>, <<"sum">>, <<"total">>, <<"n">>, <<"nope">>}}
        \cup {Post("p1", "home", Words(<<Mention, <<"sum">>, <<"x">>>>), "bob"),
              Post("p1", "home", Words(<<Mention, <<"plus">>, <<"7">>>>), "mallory"),
              Post("p2", "chat1", Words(<<Mention, <<"sum">>, <<"7">>>>), "alice")}

AliasInputs ==
    {Input(AuthFrame("tok1"), "return")}
        \cup {Input(PostFrame(post), "return") : post \in AliasPosts}

InitAlias ==
    /\ pattern = <<>>
    /\ args = <<>>
    /\ result = NotCalled
    /\ commands = <<>>
    /\ events = [login |-> <<>>, post |-> Push(<<>>, NoCommandAliasedSub)]
    /\ username = NoUser
    /\ token = NoToken
    /\ conns = <<>>
    /\ frames = <<>>
    /\ tasks = <<>>
    /\ replies = <<>>
    /\ console = <<>>
    /\ uncaught = <<>>
    /\ lastCall = "none"
    /\ contacted = <<>>
    /\ calls = <<>>

NextAlias ==
    \/ Setup /\ \E reg \in AliasRegistrations : Register(reg)
    \/ MayLogin /\ Login(BotName, TRUE)
    \/ Len(frames) < MaxFrames
          /\ \E c \in 1..Len(conns), in \in AliasInputs : Message(c, in.fr, in.hb)
    \/ \E r \in 1..Len(replies), ok \in BOOLEAN : ReplySettles(r, ok)

SpecAlias == InitAlias /\ [][NextAlias]_vars

(***************************************************************************)
(* The parseArgs harness: every pattern of at most MaxSlots slots over     *)
(* SlotKinds against every list of at most MaxArgs tokens over             *)
(* ParseTokens.                                                            *)
(***************************************************************************)
PatternTypes == {"string", "number", "full", "enum"}
SlotKinds ==
    {Slot(t, NoName, o) : t \in PatternTypes, o \in BOOLEAN}
        \cup {Slot("number", "amount", FALSE), Slot("full", "s", FALSE)}

ParseTokens == {EmptyStr, <<"7">>, <<"a">>, <<"x">>}

SeqsUpTo(S, n) == UNION {[1..k -> S] : k \in 0..n}

InitParse ==
    /\ pattern \in SeqsUpTo(SlotKinds, MaxSlots)
    /\ args \in SeqsUpTo(ParseTokens, MaxArgs)
    /\ result = NotCalled
    /\ events = [login |-> <<>>, post |-> <<>>]
    /\ commands = <<>>
    /\ username = NoUser
    /\ token = NoToken
    /\ conns = <<>>
    /\ frames = <<>>
    /\ tasks = <<>>
    /\ replies = <<>>
    /\ console = <<>>
    /\ uncaught = <<>>
    /\ lastCall = "none"
    /\ contacted = <<>>
    /\ calls = <<>>

ParseArgs ==
    /\ result = NotCalled
    /\ result' = parseArgs(pattern, args)
    /\ UNCHANGED <<pattern, args, botVars>>

NextParse == ParseArgs

SpecParse == InitParse /\ [][NextParse]_vars

(***************************************************************************)
(* The parseArgs harness over the words of the documented examples: every  *)
(* pattern of at most MaxDocSlots slots against every list of at most      *)
(* MaxArgs tokens over DocTokens.                                          *)
(***************************************************************************)
DocTokens ==
    {EmptyStr, <<"Josh">>, <<"G'day">>, <<"only-one">>, <<"Hello,">>,
     <<"world!">>, <<"2">>, <<"4">>, <<"7">>, <<"\t", "7">>, <<"a">>, <<"b">>,
     <<"A">>}

InitDoc ==
    /\ pattern \in SeqsUpTo(SlotKinds, MaxDocSlots)
    /\ args \in SeqsUpTo(DocTokens, MaxArgs)
    /\ result = NotCalled
    /\ events = [login |-> <<>>, post |-> <<>>]
    /\ commands = <<>>
    /\ username = NoUser
    /\ token = NoToken
    /\ conns = <<>>
    /\ frames = <<>>
    /\ tasks = <<>>
    /\ replies = <<>>
    /\ console = <<>>
    /\ uncaught = <<>>
    /\ lastCall = "none"
    /\ contacted = <<>>
    /\ calls = <<>>

SpecDoc == InitDoc /\ [][NextParse]_vars

(***************************************************************************)
(* Properties of parseArgs (checked under SpecParse).                      *)
(***************************************************************************)
Called == result # NotCalled

DefinitionErrors == {"optionalOrder", "fullNotLast"}
UserInputErrors == {"argsMissing", "argsNotInSet", "argNan", "tooManyArgs"}

Least(S) == IF S = {} THEN 0 ELSE CHOOSE j \in S : \A k \in S : j <= k

\* The first required slot that follows an optional slot, 0 if there is none.
FirstMisplaced(pat) ==
    Least({j \in 1..Len(pat) :
              ~pat[j].optional /\ \E i \in 1..(j - 1) : pat[i].optional})

\* The first `full` slot that is not the last slot, 0 if there is none.
FirstNonLastFull(pat) ==
    Least({j \in 1..(Len(pat) - 1) : pat[j].type = "full"})

\* Slot i, looked at on its own token, is rejected as the caller's error.
UserFails(pat, tokens, i) ==
    LET slot == pat[i] IN
    IF ~Truthy(tokens, i)
    THEN ~slot.optional /\ slot.type # "full"
    ELSE \/ slot.type = "enum" /\ \A k \in 1..Len(slot.set) : slot.set[k] # tokens[i]
         \/ slot.type = "number" /\ NumberOf(tokens[i]).nan

\* Slot i is a `full` slot with a slot after it, and it is not skipped.
FullFails(pat, tokens, i) ==
    /\ pat[i].type = "full"
    /\ i < Len(pat)
    /\ (Truthy(tokens, i) \/ ~pat[i].optional)

\* C8 as stated: a pattern in which an optional slot precedes a required slot
\* yields the optional-order definition error for every token list.
C8_AlwaysDefinitionError ==
    (Called /\ FirstMisplaced(pattern) # 0)
        => (result.error /\ result.message.kind = "optionalOrder")

\* C8 (amended): such a pattern never parses successfully and never yields
\* too-many-arguments; it yields the optional-order definition error exactly
\* when no slot before the first misplaced required slot fails first (with
\* missing-argument, not-in-set, not-a-number or the full-not-last error).
C8_DefinitionErrorUnlessEarlierSlotFails ==
    (Called /\ FirstMisplaced(pattern) # 0)
        => /\ result.error
           /\ result.message.kind # "tooManyArgs"
           /\ (result.message.kind = "optionalOrder"
                 <=> \A i \in 1..(FirstMisplaced(pattern) - 1) :
                        /\ ~UserFails(pattern, args, i)
                        /\ ~FullFails(pattern, args, i))

\* C8 witness: the definition error is returned for a non-empty token list,
\* after an optional slot was skipped.
C8_Witness ==
    /\ Called
    /\ FirstMisplaced(pattern) = 3
    /\ Len(args) = 1
    /\ result.error
    /\ result.message.kind = "optionalOrder"

FullReached(pat, tokens, f) ==
    /\ pat[f].type = "full"
    /\ f < Len(pat)
    /\ \A i \in 1..(f - 1) : ~UserFails(pat, tokens, i)
    /\ (~pat[f].optional \/ Truthy(tokens, f))

Undefined == [t |-> "undefined", s |-> EmptyStr, n |-> 0]

\* parsed[k] as the handler reads it: undefined beyond the end of the array.
At(parsed, k) == IF k <= Len(parsed) THEN parsed[k] ELSE Undefined

\* The value slot k resolves to from the token at position k.
Resolved(pat, tokens, k) ==
    LET current == IF k <= Len(tokens) THEN tokens[k] ELSE EmptyStr IN
    IF SkipsSlot(pat[k], tokens, k) THEN Undefined
    ELSE IF pat[k].type = "number" THEN NumValue(NumberOf(current).val)
    ELSE IF pat[k].type = "full" THEN StrValue(JoinFrom(tokens, k))
    ELSE StrValue(current)

\* C10: on every successful parse the value at position k of the result is
\* the value resolved from slot k, and undefined where slot k was skipped.
C10_Aligned ==
    (Called /\ ~result.error)
        => \A k \in 1..Len(pattern) :
              At(result.parsed, k) = Resolved(pattern, args, k)

(***************************************************************************)
(* Properties of dispatch and of the subscriber lists.                     *)
(***************************************************************************)
PostFrames == {f \in 1..Len(frames) : frames[f].event = "post"}
RepliesOf(f) == {r \in 1..Len(replies) : replies[r].frame = f}
TasksOf(f) == {t \in 1..Len(tasks) : tasks[t].frame = f}
RepliesBy(t, content) ==
    {r \in 1..Len(replies) : replies[r].owner = t /\ replies[r].content = content}
Logged(kind, t) ==
    {k \in 1..Len(console) : console[k] = [kind |-> kind, task |-> t]}

\* The post of frame f is a command attempt for subscriber i of the post
\* list: it is not the bot's own, its first token is the mention of the bot
\* in any letter case, and its second token is the command's name.
Matches(f, i) ==
    LET post == frames[f].frame.post
        split == Split(post.p)
        sub == events.post[i]
    IN /\ sub.kind = "command"
       /\ post.u # frames[f].user
       /\ toLowerCase(split[1]) = toLowerCase(MentionOf(frames[f].user))
       /\ Len(split) >= 2
       /\ split[2] = sub.name

Matched(f) == {i \in 1..frames[f].nsubs : Matches(f, i)}

\* C1: a post by a banned author that matches a command never gets to
\* parseArgs or to fn, whatever its arguments are: the one reply attempted
\* for it is the ban notice.
C1_BannedNeverRuns ==
    \A f \in PostFrames :
        (Matched(f) # {} /\ frames[f].frame.post.u \in Banned)
            => /\ TasksOf(f) = {}
               /\ Cardinality(RepliesOf(f)) = 1
               /\ \A r \in RepliesOf(f) :
                     replies[r].content = bannedMessage /\ replies[r].owner = 0

\* C1 witness: a banned author sent a command with too many arguments and
\* got the ban notice.
C1_Witness ==
    \E f \in PostFrames :
        /\ frames[f].frame.post = Post("p1", "home", AddExcess, "mallory")
        /\ Matched(f) # {}
        /\ \E r \in RepliesOf(f) :
              replies[r].content = bannedMessage /\ replies[r].status = "sent"

\* C2: a post by an author outside the admin set that matches an
\* admin-restricted command never gets to parseArgs or to fn, and (the ban
\* check coming first) an author who is not banned gets the authorization
\* notice as the one reply; an admin who is not banned gets to parseArgs.
C2_AdminOnly ==
    \A f \in PostFrames : \A i \in Matched(f) :
        LET u == frames[f].frame.post.u
            split == Split(frames[f].frame.post.p)
        IN
        events.post[i].admin
            => /\ u \notin Admins
                  => /\ TasksOf(f) = {}
                     /\ u \notin Banned
                          => /\ Cardinality(RepliesOf(f)) = 1
                             /\ \A r \in RepliesOf(f) :
                                   /\ replies[r].content = adminLockedMessage
                                   /\ replies[r].owner = 0
               /\ (u \in Admins /\ u \notin Banned)
                  => \E t \in TasksOf(f) :
                        /\ tasks[t].sub = i
                        /\ tasks[t].parsed =
                              parseArgs(events.post[i].pat,
                                        SubSeq(split, 3, Len(split)))

\* C2 witness: a plain user sent an admin command with an invalid argument
\* and got the authorization notice.
C2_Witness ==
    \E f \in PostFrames :
        /\ frames[f].frame.post = Post("p1", "home", LockInvalid, "bob")
        /\ Matched(f) # {}
        /\ \E r \in RepliesOf(f) :
              replies[r].content = adminLockedMessage /\ replies[r].status = "sent"

\* C3: when fn throws or the promise it returned rejects, the subscriber
\* catches it: the error is logged, the generic failure reply is attempted
\* exactly once, and the subscriber's own promise never rejects.
C3_FnFailureCaught ==
    \A t \in 1..Len(tasks) :
        /\ tasks[t].pc # "rejected"
        /\ tasks[t].raised = "fn"
              => /\ tasks[t].ran = 1
                 /\ tasks[t].pc \in {"awaitErrorReply", "done"}
                 /\ Cardinality(Logged("error", t)) = 1
                 /\ Cardinality(RepliesBy(t, errorMessage)) = 1
                 /\ tasks[t].errorReplies = 1

\* C3 witness: a promise returned by fn rejected, and the failure reply was
\* sent.
C3_Witness ==
    \E t \in 1..Len(tasks) :
        /\ tasks[t].fn = "async"
        /\ tasks[t].raised = "fn"
        /\ tasks[t].pc = "done"
        /\ \E r \in RepliesBy(t, errorMessage) : replies[r].status = "sent"

\* The step in which the request of a generic failure reply ends in an error.
FailureReplyFails(r) ==
    /\ r \in 1..Len(replies)
    /\ replies[r].content = errorMessage
    /\ replies[r].status = "pending"
    /\ replies'[r].status = "failed"

\* C4: when sending the generic failure reply fails, the failure is logged
\* and nothing else happens: the subscriber ends without rejecting, no reply
\* is started, and every other task, reply, frame and field of the bot is
\* left as it was.
C4_SecondaryFailureOnlyLogged ==
    [][\A r \in 1..Len(replies) :
          FailureReplyFails(r)
             => LET t == replies[r].owner IN
                /\ console' = Append(console, [kind |-> "secondary", task |-> t])
                /\ tasks' = [tasks EXCEPT ![t].pc = "done"]
                /\ replies' = [replies EXCEPT ![r].status = "failed"]
                /\ uncaught' = uncaught
                /\ UNCHANGED <<events, commands, username, token, conns, frames>>
      ]_vars

\* C4 witness: the failure reply of one task failed, and was logged, while
\* another task is still waiting for the promise of its fn.
C4_Witness ==
    \E t \in 1..Len(tasks), u \in 1..Len(tasks) :
        /\ t # u
        /\ Logged("secondary", t) # {}
        /\ tasks[t].pc = "done"
        /\ tasks[u].pc = "awaitHandler"

\* C5: a ban, authorization or command-not-found notice that fails to be
\* sent, by a bot that is logged in, is caught: its promise rejection is not
\* left unhandled.
C5_NoticeFailureCaught ==
    \A r \in 1..Len(replies) :
        (/\ replies[r].owner = 0
         /\ replies[r].status = "failed"
         /\ frames[replies[r].frame].user # NoUser)
            => ~\E k \in 1..Len(uncaught) :
                   uncaught[k] = [kind |-> "rejection", frame |-> replies[r].frame]

Upto(n) == [k \in 1..n |-> k]

\* The subscribers of the list frame f fired that throw when called.
Throwing(f) ==
    {i \in 1..frames[f].nsubs : Throws(events[frames[f].event][i])}

FiredFrames == {f \in 1..Len(frames) : frames[f].event # "none"}

RECURSIVE Registered(_, _)
Registered(event, n) ==
    IF n = 0 THEN <<>>
    ELSE IF calls[n].event = event
         THEN Append(Registered(event, n - 1), calls[n].sub)
         ELSE Registered(event, n - 1)

\* The subscribers the constructor registers.
Built(event) ==
    IF event = "login" THEN <<>>
    ELSE IF commands # <<>> /\ events.post[2].fn = "help"
         THEN SubSeq(events.post, 1, 2)
         ELSE SubSeq(events.post, 1, 1)

\* C7: each subscriber list holds the callbacks of the on() and command()
\* calls in call order, none removed, moved or merged, and a firing invokes
\* them in that order (an initial run of the list, all of it unless a
\* callback throws).
C7_AppendOnly ==
    /\ \A event \in {"login", "post"} :
          events[event] = Built(event) \o Registered(event, Len(calls))
    /\ \A f \in FiredFrames :
          /\ Len(frames[f].invoked) <= frames[f].nsubs
          /\ frames[f].invoked = Upto(Len(frames[f].invoked))
          /\ ~frames[f].threw => Len(frames[f].invoked) = frames[f].nsubs

\* C7 witness: the same callback was registered twice, after a command, and
\* a post invoked it twice, after the command's subscriber.
C7_Witness ==
    \E f \in PostFrames : \E i \in 1..Len(events.post) :
        /\ i + 2 = frames[f].nsubs
        /\ events.post[i].kind = "command"
        /\ events.post[i + 1] = UserSub("f")
        /\ events.post[i + 2] = UserSub("f")
        /\ frames[f].invoked = Upto(i + 2)

(***************************************************************************)
(* Properties of parseArgs on the documented examples (checked under       *)
(* SpecDoc).                                                               *)
(***************************************************************************)
\* [{type: "string"}, {type: "string", optional: true}]
GreetPattern == <<Slot("string", NoName, FALSE), Slot("string", NoName, TRUE)>>

\* C11 as stated: [required string, optional string] with the token "Josh"
\* succeeds with the two-position result ["Josh", undefined], and with
\* "Josh", "G'day" it succeeds with ["Josh", "G'day"].
C11_TwoPositions ==
    (Called /\ pattern = GreetPattern)
        => /\ args = << <<"Josh">> >>
                => result = Success(<<StrValue(<<"Josh">>), Undefined>>)
           /\ args = << <<"Josh">>, <<"G'day">> >>
                => result = Success(<<StrValue(<<"Josh">>), StrValue(<<"G'day">>)>>)

\* C11 (amended): with the token "Josh" the parse succeeds with the
\* one-position result ["Josh"]: the skipped optional slot adds nothing to
\* the array, and undefined is only what reading position 1 of it gives.
\* With "Josh", "G'day" it succeeds with ["Josh", "G'day"].
C11_SkippedSlotAddsNothing ==
    (Called /\ pattern = GreetPattern)
        => /\ args = << <<"Josh">> >>
                => /\ result = Success(<<StrValue(<<"Josh">>)>>)
                   /\ At(result.parsed, 2) = Undefined
           /\ args = << <<"Josh">>, <<"G'day">> >>
                => result = Success(<<StrValue(<<"Josh">>), StrValue(<<"G'day">>)>>)

\* C11 witness: the example with the single token was parsed.
C11_Witness ==
    /\ Called
    /\ pattern = GreetPattern
    /\ args = << <<"Josh">> >>
    /\ ~result.error

\* Slot i is reached with nothing decided before it: every slot before it is
\* required, is not a `full` slot, and accepts its token.
ReachedPlain(pat, tokens, i) ==
    \A j \in 1..(i - 1) :
        ~pat[j].optional /\ pat[j].type # "full" /\ ~UserFails(pat, tokens, j)

\* C12: when parsing reaches a slot that is neither optional nor `full` and
\* there is no token at its position (or an empty one), the result is the
\* missing-argument error naming that slot: "name (type)" when the slot has a
\* name, else the type.  ["string", "string"] with one token names the second
\* slot.
C12_MissingNamesSlot ==
    Called =>
        /\ \A i \in 1..Len(pattern) :
              (/\ ReachedPlain(pattern, args, i)
               /\ ~pattern[i].optional
               /\ pattern[i].type # "full"
               /\ ~Truthy(args, i))
                  => /\ result.error
                     /\ result.message.kind = "argsMissing"
                     /\ result.message = argsMissing(Repr(pattern[i]))
                     /\ pattern[i].name = NoName
                           => result.message.repr =
                                 IF pattern[i].type = "enum"
                                 THEN <<"a", ",", "b">>
                                 ELSE <<pattern[i].type>>
        /\ (pattern = <<Slot("string", NoName, FALSE), Slot("string", NoName, FALSE)>>
               /\ args = << <<"only-one">> >>)
              => result = Failure(argsMissing(<<"string">>))
        /\ (pattern = <<Slot("string", NoName, FALSE), Slot("number", "amount", FALSE)>>
               /\ args = << <<"only-one">> >>)
              => result = Failure(argsMissing(<<"amount", " ", "(", "number", ")">>))

\* C12 witness: a named slot in second position had no token and was named
\* in the error.
C12_Witness ==
    /\ Called
    /\ Len(pattern) = 2
    /\ pattern[2].name = "amount"
    /\ args = << <<"only-one">> >>
    /\ result.error
    /\ result.message.kind = "argsMissing"
    /\ result.message.repr = <<"amount", " ", "(", "number", ")">>

\* C13: a required `full` slot in last position that parsing reaches with no
\* token left is not an error: the parse succeeds, and the slot resolves to
\* the empty string at its own position.
C13_EmptyFull ==
    LET n == Len(pattern) IN
    (/\ Called
     /\ n >= 1
     /\ pattern[n].type = "full"
     /\ ~pattern[n].optional
     /\ ReachedPlain(pattern, args, n)
     /\ Len(args) < n)
        => /\ ~result.error
           /\ Len(result.parsed) = n
           /\ result.parsed[n] = StrValue(EmptyStr)

\* C13 witness: a number and a required `full` slot were parsed from the one
\* token "7".
C13_Witness ==
    /\ Called
    /\ pattern = <<Slot("number", "amount", FALSE), Slot("full", "s", FALSE)>>
    /\ args = << <<"7">> >>
    /\ result = Success(<<NumValue(7), StrValue(EmptyStr)>>)

HasFull(pat) == \E i \in 1..Len(pat) : pat[i].type = "full"

\* No slot of the pattern is rejected, as the caller's error or as an error
\* of the pattern.
NoSlotFails(pat, tokens) ==
    /\ FirstMisplaced(pat) = 0
    /\ FirstNonLastFull(pat) = 0
    /\ \A i \in 1..Len(pat) : ~UserFails(pat, tokens, i)

\* The number of tokens the slots take: a slot takes the token at its
\* position when there is a non-empty one.
Consumed(pat, tokens) ==
    Cardinality({i \in 1..Len(pat) : Truthy(tokens, i)})

\* C14: for a pattern with no `full` slot a parse succeeds only when as many
\* values were resolved as tokens were supplied, and when no slot fails and
\* the slots take fewer tokens than were supplied the result is the
\* too-many-arguments error; ["string"] with the tokens a, b fails with it.
C14_TooManyWithoutFull ==
    (Called /\ ~HasFull(pattern))
        => /\ ~result.error
                => /\ Len(result.parsed) = Len(args)
                   /\ Consumed(pattern, args) = Len(args)
           /\ (NoSlotFails(pattern, args) /\ Consumed(pattern, args) # Len(args))
                => result = Failure(tooManyArgs)
           /\ (pattern = <<Slot("string", NoName, FALSE)>>
                  /\ args = << <<"a">>, <<"b">> >>)
                => result = Failure(tooManyArgs)

\* C14 witness: ["string"] was parsed against the tokens a, b and failed with
\* too many arguments.
C14_Witness ==
    /\ Called
    /\ pattern = <<Slot("string", NoName, FALSE)>>
    /\ args = << <<"a">>, <<"b">> >>
    /\ result.error
    /\ result.message.kind = "tooManyArgs"

\* The pattern is well-formed: no required slot after an optional one, and
\* no slot after a `full` slot.
WellFormed(pat) == FirstMisplaced(pat) = 0 /\ FirstNonLastFull(pat) = 0

\* C15: for a well-formed pattern whose last slot is `full`, required or
\* optional, no token list makes the parse fail with too many arguments.
C15_NoTooManyWithFull ==
    (/\ Called
     /\ WellFormed(pattern)
     /\ Len(pattern) >= 1
     /\ pattern[Len(pattern)].type = "full")
        => ~(result.error /\ result.message.kind = "tooManyArgs")

\* The last value of a parsed list.
LastOf(parsed) == parsed[Len(parsed)]

\* C16: a `full` slot that parsing reaches and does not skip resolves to the
\* token at its position and all the tokens after it joined by single spaces
\* (splitting the text at the spaces gives back exactly those tokens), and
\* the parse succeeds however many tokens follow.  [number amount, full s]
\* with the tokens 7, Hello,, world! gives [7, "Hello, world!"].
C16_FullJoinsRest ==
    LET n == Len(pattern) IN
    Called =>
        /\ (/\ n >= 1
            /\ pattern[n].type = "full"
            /\ NoSlotFails(pattern, args)
            /\ Truthy(args, n))
              => /\ ~result.error
                 /\ result.parsed # <<>>
                 /\ LastOf(result.parsed).t = "string"
                 /\ Split(LastOf(result.parsed).s) = SubSeq(args, n, Len(args))
        /\ (pattern = <<Slot("number", "amount", FALSE), Slot("full", "s", FALSE)>>
               /\ args = << <<"7">>, <<"Hello,">>, <<"world!">> >>)
              => result = Success(<<NumValue(7),
                                    StrValue(<<"Hello,", " ", "world!">>)>>)

\* C16 witness: the documented example was parsed.
C16_Witness ==
    /\ Called
    /\ pattern = <<Slot("number", "amount", FALSE), Slot("full", "s", FALSE)>>
    /\ args = << <<"7">>, <<"Hello,">>, <<"world!">> >>
    /\ ~result.error
    /\ Len(result.parsed) = 2

\* Parsing gets to slot i: no slot before it is rejected, and no required
\* slot up to it follows an optional one.
ReachedSlot(pat, tokens, i) ==
    /\ FirstMisplaced(pat) = 0 \/ FirstMisplaced(pat) > i
    /\ \A j \in 1..(i - 1) : ~UserFails(pat, tokens, j) /\ ~FullFails(pat, tokens, j)

\* Where the value of slot i is in the result: after the values of the
\* slots before it that were not skipped.
ValueIndex(pat, tokens, i) ==
    Cardinality({j \in 1..i : ~SkipsSlot(pat[j], tokens, j)})

\* C17: an enum slot that parsing reaches with a (non-empty) token accepts
\* the token only if it is one of the members "a", "b" exactly, "A" not
\* being one, and then passes it on unchanged (the parse succeeds when the
\* slot and the token are the last ones and no token before is empty, and
\* every successful parse holds the token as the slot's value); every other
\* token fails the parse with the not-in-set error that holds the quoted
\* token and the quoted members separated by ", ".
C17_EnumExact ==
    Called =>
        \A i \in 1..Len(pattern) :
            (/\ pattern[i].type = "enum"
             /\ ReachedSlot(pattern, args, i)
             /\ Truthy(args, i))
                => IF args[i] \in {<<"a">>, <<"b">>}
                   THEN /\ (/\ i = Len(pattern)
                             /\ i = Len(args)
                             /\ \A j \in 1..i : Truthy(args, j))
                              => ~result.error
                        /\ ~result.error
                              => result.parsed[ValueIndex(pattern, args, i)]
                                    = StrValue(args[i])
                   ELSE result =
                          Failure(argsNotInSet(
                              <<"\"">> \o args[i] \o <<"\"">>,
                              <<"\"", "a", "\"", ", ", "\"", "b", "\"">>))

\* C17 witness: the token "A" was rejected by an enum slot with the member
\* "a".
C17_Witness ==
    /\ Called
    /\ Len(pattern) = 1
    /\ pattern[1].type = "enum"
    /\ args = << <<"A">> >>
    /\ result.error
    /\ result.message.kind = "argsNotInSet"
    /\ result.message.str = <<"\"", "A", "\"">>

\* The tokens of the examples that Number() reads as a number, with their
\* values: white space around the digits is ignored.
NumericTokens == {<<"2">>, <<"4">>, <<"7">>, <<"\t", "7">>}
ValueOfToken(tok) ==
    CASE tok = <<"2">> -> 2
      [] tok = <<"4">> -> 4
      [] tok = <<"7">> -> 7
      [] tok = <<"\t", "7">> -> 7

\* C18: a number slot that parsing reaches with a (non-empty) token resolves
\* a token that reads as a number to its value (the parse succeeds when the
\* slot and the token are the last ones and no token before is empty, and
\* every successful parse holds the value as the slot's value), and fails
\* with the not-a-number error holding the quoted token for every other
\* token.  ["number", "number"] with "2", "4" gives [2, 4].
C18_NumberSlot ==
    Called =>
        /\ \A i \in 1..Len(pattern) :
              (/\ pattern[i].type = "number"
               /\ ReachedSlot(pattern, args, i)
               /\ Truthy(args, i))
                  => IF args[i] \in NumericTokens
                     THEN /\ (/\ i = Len(pattern)
                               /\ i = Len(args)
                               /\ \A j \in 1..i : Truthy(args, j))
                                => ~result.error
                          /\ ~result.error
                                => result.parsed[ValueIndex(pattern, args, i)]
                                      = NumValue(ValueOfToken(args[i]))
                     ELSE result =
                            Failure(argNan(<<"\"">> \o args[i] \o <<"\"">>))
        /\ (pattern = <<Slot("number", NoName, FALSE), Slot("number", NoName, FALSE)>>
               /\ args = << <<"2">>, <<"4">> >>)
              => result = Success(<<NumValue(2), NumValue(4)>>)

\* C18 witness: the second of two number slots rejected the token "Josh"
\* after the first resolved "2".
C18_Witness ==
    /\ Called
    /\ pattern = <<Slot("number", NoName, FALSE), Slot("number", NoName, FALSE)>>
    /\ args = << <<"2">>, <<"Josh">> >>
    /\ result = Failure(argNan(<<"\"", "Josh", "\"">>))

(***************************************************************************)
(* Properties of the command registry.                                     *)
(***************************************************************************)
\* The subscribers of commands in the post list, in order.
CommandSubs == SelectSeq(events.post, LAMBDA sub : sub.kind = "command")

\* No two commands of the list have the same name, and the post list has
\* one subscriber per command, in the same order and with the same name.
OneCommandPerName ==
    /\ \A j, k \in 1..Len(commands) :
          commands[j].name = commands[k].name => j = k
    /\ Len(CommandSubs) = Len(commands)
    /\ \A k \in 1..Len(commands) : CommandSubs[k].name = commands[k].name

\* C19: command() with the name of a command already in the list fails and
\* changes nothing: no name is ever in the list twice, a call that fails as a
\* duplicate leaves the command list, the subscriber lists and every other
\* field as they were (so that the same call fails again from the same
\* state), and the command list only ever grows by one command of a name it
\* did not hold, together with that command's subscriber.
C19_DuplicateRejected ==
    /\ []OneCommandPerName
    /\ [][/\ lastCall' = "duplicate"
             => /\ UNCHANGED <<commands, events, calls, username, token, conns,
                               frames, tasks, replies, console, uncaught>>
                /\ \E reg \in Registrations : NameTaken(commands', reg.name)
          /\ commands' # commands
             => \E reg \in Registrations :
                   /\ ~NameTaken(commands, reg.name)
                   /\ commands' = Append(commands,
                                         Command(reg.name, reg.admin, reg.pat))
                   /\ events' = [events EXCEPT
                                    !.post = Append(@, CommandSub(reg.name, reg.admin,
                                                                  reg.pat, "user"))]
                   /\ lastCall' = "ok"
       ]_vars

\* C19 witness: a command() call with a name of the list has just failed,
\* two commands and their subscribers being registered.
C19_Witness ==
    /\ lastCall = "duplicate"
    /\ Len(commands) = 2
    /\ Len(events.post) = 3

\* No name or alias is held by two commands of the list, and the post list
\* has one subscriber per command, after the command-not-found subscriber.
OneCommandPerAlias ==
    /\ \A j, k \in 1..Len(commands) :
          j # k => NamesOf(commands[j]) \cap NamesOf(commands[k]) = {}
    /\ Len(events.post) = Len(commands) + 1
    /\ \A k \in 1..Len(commands) :
          /\ events.post[k + 1].kind = "aliased"
          /\ NamesOf(events.post[k + 1]) = NamesOf(commands[k])

\* The post of frame f mentions the bot, is not the bot's own, and its
\* command token is an alias (not the name) of command k.
CallsByAlias(f, k) ==
    LET post == frames[f].frame.post
        split == Split(post.p)
    IN /\ post.u # frames[f].user
       /\ toLowerCase(split[1]) = toLowerCase(MentionOf(frames[f].user))
       /\ Len(split) >= 2
       /\ \E a \in 1..Len(commands[k].aliases) : commands[k].aliases[a] = split[2]

C21_OwnPostsIgnored ==
    \A f \in PostFrames :
        frames[f].frame.post.u = frames[f].user
            => TasksOf(f) = {} /\ RepliesOf(f) = {}

\* The post of frame f is not the bot's own and its first token is the
\* mention of the bot as the post spells it here.
Pings(f) ==
    /\ frames[f].frame.post.u # frames[f].user
    /\ Split(frames[f].frame.post.p)[1] = MentionOf(frames[f].user)

NoticesOf(f) == {r \in RepliesOf(f) : replies[r].content.kind = "noCommand"}

\* C22: for a post that is not the bot's own and starts with the bot's
\* mention, the command-not-found notice is sent if and only if there is a
\* (non-empty) second token and no command of the list has it as its name,
\* and then once, quoting the token; a post that is only the mention and a
\* post that does not start with the mention get no reply and start nothing.
C22_NotFoundNotice ==
    \A f \in PostFrames :
        LET post == frames[f].frame.post
            split == Split(post.p)
        IN /\ Pings(f)
                => /\ NoticesOf(f) # {}
                      <=> /\ Len(split) >= 2
                          /\ split[2] # EmptyStr
                          /\ \A k \in 1..Len(commands) : commands[k].name # split[2]
                   /\ Cardinality(NoticesOf(f)) <= 1
                   /\ \A r \in NoticesOf(f) :
                         /\ replies[r].content =
                               noCommand(<<"\"">> \o split[2] \o <<"\"">>)
                         /\ RepliesOf(f) = {r}
                         /\ TasksOf(f) = {}
                   /\ Len(split) = 1 => RepliesOf(f) = {} /\ TasksOf(f) = {}
           /\ (post.u # frames[f].user /\ split[1] = <<"hello">>)
                => RepliesOf(f) = {} /\ TasksOf(f) = {}

\* C22 witness: a post with an unknown command token got the notice, with
\* commands registered.
C22_Witness ==
    \E f \in PostFrames :
        /\ Pings(f)
        /\ frames[f].frame.post.p = Unknown
        /\ commands # <<>>
        /\ \E r \in NoticesOf(f) : replies[r].status = "sent"

\* The spellings of the mention of BearBot that differ in letter case only.
MentionSpellings == {<<"@", "BearBot">>, <<"@", "bearbot">>, <<"@", "BEARBOT">>}

\* C23: with the bot logged in as BearBot and "add" registered, a post by a
\* user who is not banned whose first token spells the mention in any
\* letter case and whose second token is "add" is dispatched to "add" (its
\* pattern is parsed against the rest), while the second token "Add" is not:
\* it starts nothing and is answered as an unknown command.
C23_LetterCase ==
    \A f \in PostFrames :
        LET post == frames[f].frame.post
            split == Split(post.p)
        IN (/\ frames[f].user = BotName
            /\ post.u \notin Banned \cup {BotName}
            /\ split[1] \in MentionSpellings
            /\ Len(split) >= 2
            /\ \E k \in 1..Len(commands) : commands[k].name = <<"add">>)
              => /\ split[2] = <<"add">>
                    => /\ Cardinality(TasksOf(f)) = 1
                       /\ \A t \in TasksOf(f) :
                             /\ tasks[t].name = <<"add">>
                             /\ tasks[t].parsed =
                                   parseArgs(NumberPattern,
                                             SubSeq(split, 3, Len(split)))
                       /\ NoticesOf(f) = {}
                 /\ split[2] = <<"Add">>
                    => /\ TasksOf(f) = {}
                       /\ \E r \in NoticesOf(f) :
                             replies[r].content = noCommand(<<"\"", "Add", "\"">>)

\* C23 witness: "@BEARBOT add 7" ran the handler of "add", BearBot being the
\* username.
C23_Witness ==
    \E f \in PostFrames :
        /\ frames[f].user = BotName
        /\ frames[f].frame.post.p = AddShout
        /\ \E t \in TasksOf(f) : tasks[t].ran = 1 /\ tasks[t].name = <<"add">>

\* The replies task t awaited, in the order they were made.
OwnReplies(t) == SelectSeq(replies, LAMBDA r : r.owner = t)

\* C24: for a post that got to parseArgs (matched, author neither banned
\* nor locked out), a parse error is relayed as it is, as the first reply of
\* that post and to that post, and fn is not called; a parse success calls fn
\* exactly once, with the parsed arguments and the post, relays nothing, and
\* the generic failure reply is sent only if fn failed.
C24_RelayOrInvoke ==
    \A t \in 1..Len(tasks) :
        LET f == tasks[t].frame
            post == frames[f].frame.post
            split == Split(post.p)
            sub == events.post[tasks[t].sub]
            expected == parseArgs(sub.pat, SubSeq(split, 3, Len(split)))
        IN /\ tasks[t].parsed = expected
           /\ expected.error
                => /\ tasks[t].ran = 0
                   /\ tasks[t].given = NotGiven
                   /\ Len(OwnReplies(t)) >= 1
                   /\ OwnReplies(t)[1].content = expected.message
                   /\ OwnReplies(t)[1].chat = post.post_origin
                   /\ OwnReplies(t)[1].reply_to = post.post_id
           /\ ~expected.error
                => /\ tasks[t].ran = 1
                   /\ tasks[t].given = [args |-> expected.parsed, post |-> post]
                   /\ \A k \in 1..Len(OwnReplies(t)) :
                         OwnReplies(t)[k].content.kind \in {"handler", "helpCommands", "error"}
                   /\ tasks[t].errorReplies > 0 => tasks[t].raised = "fn"
                   /\ tasks[t].fn = "return" => OwnReplies(t) = <<>>

\* C24 witness: one command got a parse error relayed and sent, and the
\* same command ran its fn for another post.
C24_Witness ==
    \E t, u \in 1..Len(tasks) :
        /\ tasks[t].name = tasks[u].name
        /\ tasks[t].parsed.error
        /\ tasks[t].pc = "done"
        /\ OwnReplies(t)[1].status = "sent"
        /\ ~tasks[u].parsed.error
        /\ tasks[u].ran = 1
        /\ tasks[u].given.args = <<NumValue(7)>>

\* The replies made for the same post after reply r.
LaterReplies(r) ==
    {q \in r + 1..Len(replies) : replies[q].frame = replies[r].frame}

FailedReplies == {r \in 1..Len(replies) : replies[r].status = "failed"}

\* C25 as stated: after a reply for a post failed, no further reply is
\* attempted for that post.
C25_NothingAfterFailure ==
    \A r \in FailedReplies : LaterReplies(r) = {}

\* C25, amended: no reply is sent a second time.  A failed reply that the
\* wrapped function awaited (the relayed parse error, or a reply awaited by
\* fn) is followed by one more reply for that post, the generic failure
\* reply; a failed failure reply and a failed ban, authorization or
\* not-found notice are followed by nothing.
C25_OnlyTheFailureReplyFollows ==
    \A r \in FailedReplies :
        /\ \A q \in LaterReplies(r) : replies[q].content # replies[r].content
        /\ IF replies[r].owner # 0 /\ replies[r].content # errorMessage
           THEN \E q \in LaterReplies(r) :
                   /\ LaterReplies(r) = {q}
                   /\ replies[q].content = errorMessage
                   /\ replies[q].owner = replies[r].owner
           ELSE LaterReplies(r) = {}

\* C25 witness: the relayed parse error failed, the failure reply was
\* attempted and failed too, and nothing followed; and this with a token
\* bound, so that both requests were made.
C25_Witness ==
    \E r \in FailedReplies, q \in FailedReplies :
        /\ replies[r].owner # 0
        /\ tasks[replies[r].owner].parsed.error
        /\ replies[r].content = tasks[replies[r].owner].parsed.message
        /\ q \in LaterReplies(r)
        /\ replies[q].content = errorMessage
        /\ token # NoToken
        /\ tasks[replies[r].owner].pc = "done"

\* The frame a step received, when the step is a message event.
Received == frames'[Len(frames')]
Receives == Len(frames') = Len(frames) + 1

KnownCmds == {"auth", "post"}

\* C26: receiving a JSON frame whose cmd is neither auth nor post invokes no
\* login or post subscriber, starts no reply and no task, logs and throws
\* nothing, and leaves token, username, commands, subscriber lists and
\* connections as they were.
C26_UnknownCmdNoEffect ==
    [][(Receives /\ Received.frame.json /\ Received.frame.cmd \notin KnownCmds)
          => /\ Received.event = "none"
             /\ Received.invoked = <<>>
             /\ UNCHANGED <<events, commands, username, token, conns, tasks,
                            replies, console, uncaught, lastCall, calls>>]_vars

\* C26 witness: a logged-in bot with subscribers received a frame of another
\* cmd carrying a token, which was not bound.
C26_Witness ==
    \E f \in 1..Len(frames) :
        /\ frames[f].frame = UlistWithToken
        /\ frames[f].event = "none"
        /\ token = "tok1"
        /\ username = BotName
        /\ Len(events.post) > 1

\* A frame that is not JSON, or a packet of a known cmd whose val does not
\* fit the schema of that cmd.
Malformed(fr) ==
    \/ ~fr.json
    \/ fr.cmd \in KnownCmds /\ ~IsAuthPacket(fr) /\ ~IsPostPacket(fr)

\* C27: receiving a malformed frame, text that is not JSON included, fires
\* no event, lets no error leave the listeners and changes nothing of the
\* bot's state.
C27_MalformedDropped ==
    [][(Receives /\ Malformed(Received.frame))
          => /\ Received.event = "none"
             /\ Received.invoked = <<>>
             /\ UNCHANGED <<events, commands, username, token, conns, tasks,
                            replies, console, uncaught, lastCall, calls>>]_vars

LoginFrames == {f \in 1..Len(frames) : frames[f].event = "login"}

\* C28: an auth packet binds its token and the username of the login() that
\* opened the connection, and then calls the login subscribers in
\* registration order with that token (up to one that throws, C6); each of
\* them finds the bot's token equal to the token it is passed and the
\* username set.  The token bound is that of the last auth packet.
C28_BoundBeforeLogin ==
    /\ \A f \in LoginFrames :
          LET tok == frames[f].frame.token IN
          /\ tok # NoToken
          /\ frames[f].user = conns[frames[f].conn].username
          /\ frames[f].user # NoUser
          /\ frames[f].invoked = Upto(Len(frames[f].invoked))
          /\ ~frames[f].threw => Len(frames[f].invoked) = frames[f].nsubs
          /\ Len(frames[f].seen) = Len(frames[f].invoked)
          /\ \A k \in 1..Len(frames[f].seen) :
                frames[f].seen[k] =
                    [arg |-> tok, token |-> tok, username |-> frames[f].user]
    /\ IF LoginFrames = {}
       THEN token = NoToken /\ username = NoUser
       ELSE LET last == CHOOSE f \in LoginFrames : \A g \in LoginFrames : g <= f
            IN token = frames[last].frame.token /\ username = frames[last].user

\* C28 witness: with one token bound, an auth packet with another token
\* called two login subscribers, and both found the new token bound.
C28_Witness ==
    \E f \in LoginFrames, g \in LoginFrames :
        /\ g < f
        /\ frames[g].frame.token = "tok1"
        /\ frames[f].frame.token = "tok2"
        /\ Len(frames[f].seen) = 2
        /\ frames[f].seen[2].token = "tok2"
        /\ token = "tok2"

\* C29: every reply made through the reply function of a post frame goes to
\* the chat of that frame's post and replies to that post's id; a reply that
\* a task awaits belongs to the frame that started the task.  This holds of
\* replies made after later posts were received and while their dispatches
\* are in flight.
C29_ReplyBoundToPost ==
    \A r \in 1..Len(replies) :
        LET f == replies[r].frame
            t == replies[r].owner
        IN /\ f \in PostFrames
           /\ t # 0 => tasks[t].frame = f
           /\ replies[r].chat = frames[f].frame.post.post_origin
           /\ replies[r].reply_to = frames[f].frame.post.post_id

\* C29 witness: a reply for one post was made after a post of another chat
\* had been received, whose own reply is still in flight.
C29_Witness ==
    \E r \in 1..Len(replies), q \in 1..Len(replies) :
        /\ q < r
        /\ replies[q].frame > replies[r].frame
        /\ replies[q].status = "pending"
        /\ replies[q].chat # replies[r].chat
        /\ replies[q].reply_to # replies[r].reply_to

\* A WebSocket opened by login() that has not received its auth packet.
Authenticating(c) ==
    /\ conns[c].open
    /\ ~\E f \in LoginFrames : frames[f].conn = c

\* Two receptions of one post, each of which fired the post event.
DispatchedTwice(f, g) ==
    /\ f \in PostFrames
    /\ g \in PostFrames
    /\ f # g
    /\ frames[f].frame.post = frames[g].frame.post

\* C30: at most one login() is waiting for its auth packet, login() opens
\* no second WebSocket while an earlier one waits, and no post is dispatched
\* through two connections.
C30_OneAttemptInFlight ==
    /\ Cardinality({c \in 1..Len(conns) : Authenticating(c)}) <= 1
    /\ \A c \in 1..Len(conns) :
          Authenticating(c) => \A d \in 1..Len(conns) : d > c => ~conns[d].open
    /\ \A f \in 1..Len(frames), g \in 1..Len(frames) :
          DispatchedTwice(f, g) => frames[f].conn = frames[g].conn

\* A step that is a call of login(): the steps of the dispatch specification
\* that receive no frame and settle nothing, once the bot is set up.
LoginStep ==
    /\ conns # <<>>
    /\ UNCHANGED <<frames, replies, tasks>>

\* C31: login() called with a token bound throws the already-logged-in error
\* without a request to the login endpoint and without opening a WebSocket,
\* and token, username and connections stay as they were.
C31_LoginWhileBound ==
    [][(LoginStep /\ token # NoToken)
          => /\ lastCall' = "alreadyLoggedIn"
             /\ contacted' = <<>>
             /\ UNCHANGED <<token, username, conns, events, commands>>]_vars

\* C31 witness: logged in through one WebSocket, login() was called again
\* and threw.
C31_Witness ==
    /\ lastCall = "alreadyLoggedIn"
    /\ contacted = <<>>
    /\ token = "tok1"
    /\ username = BotName
    /\ Len(conns) = 1
    /\ conns[1].open

\* Every WebSocket login() opened has closed.
AllClosed == conns # <<>> /\ \A c \in 1..Len(conns) : ~conns[c].open

\* C32: once the transport has closed the bot is disconnected: no token is
\* bound, so that login() is not refused as already logged in.
C32_ClosedMeansDisconnected == AllClosed => ~LoggedIn(token)

\* The tasks whose fn returned a promise that has not been settled.
Hung == {t \in 1..Len(tasks) : tasks[t].pc = "awaitHandler"}

\* C33: while the fn called for one post has not completed, the listeners
\* of its connection still take frames, and a post received after the hung
\* one had all its subscribers called and, when its author is not banned,
\* its own task started; no reply waits for the hung fn (the witness has one
\* sent meanwhile).
C33_HungHandlerBlocksNothing ==
    \A t \in Hung :
        /\ Listening(frames[tasks[t].frame].conn)
        /\ \A g \in PostFrames :
              g > tasks[t].frame
                 => /\ frames[g].invoked = Upto(frames[g].nsubs)
                    /\ ~IsBanned(frames[g].frame.post.u)
                          => \E u \in 1..Len(tasks) : tasks[u].frame = g

\* C33 witness: fn of the first post has not completed, and a post
\* received after it was answered: its reply was sent.
C33_Witness ==
    \E t \in Hung, r \in 1..Len(replies) :
        /\ replies[r].frame > tasks[t].frame
        /\ replies[r].status = "sent"
        /\ replies[r].owner # 0
        /\ tasks[replies[r].owner].pc = "done"

\* C34: frames are handled in arrival order.  The subscribers of a frame
\* are called in the step that receives it, each up to its first suspension:
\* tasks are started in the order of their frames, a task is never left
\* unstarted (a parse error was relayed or fn was called), and a step that
\* receives no frame starts no task and calls no subscriber of a frame
\* received before.
C34_ArrivalOrder ==
    /\ [](\A t \in 1..Len(tasks) :
             /\ tasks[t].pc # "start"
             /\ tasks[t].parsed.error \/ tasks[t].ran = 1
             /\ \A u \in 1..Len(tasks) : t < u => tasks[t].frame < tasks[u].frame)
    /\ [][/\ \A f \in 1..Len(frames) : frames'[f] = frames[f]
          /\ Len(tasks') >= Len(tasks)
          /\ Len(tasks') > Len(tasks)
                => /\ Receives
                   /\ \A t \in Len(tasks) + 1..Len(tasks') :
                         tasks'[t].frame = Len(frames')]_vars

\* C34 witness: two posts were received one after the other; fn of the
\* first was called and is still pending when fn of the second has been
\* called and has returned.
C34_Witness ==
    \E t \in 1..Len(tasks), u \in 1..Len(tasks) :
        /\ tasks[t].frame < tasks[u].frame
        /\ tasks[t].ran = 1
        /\ tasks[t].pc = "awaitHandler"
        /\ tasks[u].ran = 1
        /\ tasks[u].pc = "done"

\* The post frames whose post, by a banned author, matches an
\* admin-restricted command.
BannedOnAdminCommand ==
    {f \in PostFrames :
        /\ IsBanned(frames[f].frame.post.u)
        /\ \E i \in Matched(f) : events.post[i].admin}

\* C35: a banned author who calls an admin-restricted command gets the ban
\* notice and nothing else, whether or not the author is an admin: no
\* authorization notice, no parse error, no task.
C35_BanBeforeAdmin ==
    \A f \in BannedOnAdminCommand :
        /\ TasksOf(f) = {}
        /\ Cardinality(RepliesOf(f)) = 1
        /\ \A r \in RepliesOf(f) : replies[r].content = bannedMessage

\* C35 witness: mallory, banned and no admin, called the admin command lock
\* and the ban notice was sent.
C35_Witness ==
    \E f \in BannedOnAdminCommand, r \in 1..Len(replies) :
        /\ frames[f].frame.post.u \notin Admins
        /\ replies[r].frame = f
        /\ replies[r].content = bannedMessage
        /\ replies[r].status = "sent"

\* The promise of the subscriber call that made task t is settled.
Completed(t) == tasks[t].pc \in {"done", "rejected"}

\* C36: the promise a command subscriber returns is never rejected, and it
\* is fulfilled only when nothing of the dispatch is outstanding: the
\* promise fn returned is settled, no reply the task awaited is in flight,
\* and after a failure (of fn or of an awaited reply) the failure reply has
\* been attempted, once, and its request has ended.
C36_SubscriberResolvesLast ==
    \A t \in 1..Len(tasks) :
        /\ tasks[t].pc # "rejected"
        /\ Completed(t)
              => /\ tasks[t].promise # "pending"
                 /\ tasks[t].ran = 1 <=> tasks[t].promise # "none"
                 /\ \A r \in 1..Len(replies) :
                       replies[r].owner = t => replies[r].status # "pending"
                 /\ (tasks[t].raised # "none" \/ tasks[t].promise = "rejected")
                       => /\ tasks[t].errorReplies = 1
                          /\ Cardinality(RepliesBy(t, errorMessage)) = 1

\* C36 witness: fn returned a promise that was rejected later; the failure
\* reply was then sent, and only then the subscriber completed.
C36_Witness ==
    \E t \in 1..Len(tasks), r \in 1..Len(replies) :
        /\ tasks[t].fn = "async"
        /\ tasks[t].promise = "rejected"
        /\ tasks[t].pc = "done"
        /\ r \in RepliesBy(t, errorMessage)
        /\ replies[r].status = "sent"

RECURSIVE TokensFrom(_, _, _, _)
\* The non-empty pieces of s between whitespace, from atom k on.
TokensFrom(s, k, cur, acc) ==
    LET cut == IF cur = EmptyStr THEN acc ELSE Append(acc, cur) IN
    IF k > Len(s) THEN cut
    ELSE IF s[k] \in WhiteSpace THEN TokensFrom(s, k + 1, EmptyStr, cut)
    ELSE TokensFrom(s, k + 1, Append(cur, s[k]), acc)

Tokens(s) == TokensFrom(s, 1, EmptyStr, <<>>)

\* The command subscribers of frame f that the post addresses when it is
\* cut at whitespace.
Addressed(f) ==
    LET post == frames[f].frame.post
        toks == Tokens(post.p)
    IN {i \in 1..frames[f].nsubs :
           /\ events.post[i].kind = "command"
           /\ Len(toks) >= 2
           /\ toLowerCase(toks[1]) = toLowerCase(MentionOf(frames[f].user))
           /\ toks[2] = events.post[i].name
           /\ post.u # frames[f].user
           /\ Denial(events.post[i], post.u) = NoMessage}

\* C37: a post whose mention, command and arguments are separated by any
\* whitespace dispatches the command with the non-empty tokens as arguments.
C37_WhitespaceTokens ==
    \A f \in PostFrames :
        \A i \in Addressed(f) :
            LET toks == Tokens(frames[f].frame.post.p) IN
            \E t \in TasksOf(f) :
                /\ tasks[t].sub = i
                /\ tasks[t].parsed =
                       parseArgs(events.post[i].pat, SubSeq(toks, 3, Len(toks)))

\* The post frames received before any auth packet.
EarlyFrames == {f \in PostFrames : \A g \in LoginFrames : f < g}

\* C38 as stated: no reply for a post received before the auth packet is
\* ever sent.
C38_EarlyPostNeverAnswered ==
    \A f \in EarlyFrames : \A r \in RepliesOf(f) : replies[r].status # "sent"

\* C38, amended: a reply made while no token is bound fails without a
\* request, and stays failed; every request that was made carries the token
\* bound when the reply function was called.  A reply for an early post that
\* is made after the token was bound is an ordinary reply.
C38_NoRequestWithoutToken ==
    /\ [](\A r \in 1..Len(replies) :
             /\ replies[r].token = NoToken => replies[r].status = "failed"
             /\ replies[r].status \in {"pending", "sent"}
                   => /\ replies[r].token # NoToken
                      /\ \E g \in LoginFrames :
                            replies[r].token = frames[g].frame.token)
    /\ [][\A r \in 1..Len(replies) :
             replies[r].token = NoToken => replies'[r] = replies[r]]_vars

\* C38 witness: fn was called for a post received before the auth packet
\* and failed after it; the failure reply for that post, made with the token
\* bound by then, was sent.
C38_Witness ==
    \E f \in EarlyFrames :
        \E q \in RepliesOf(f) :
            /\ replies[q].content = errorMessage
            /\ replies[q].token = "tok1"
            /\ replies[q].status = "sent"
            /\ tasks[replies[q].owner].promise = "rejected"

\* The replies of frame f that only a matched command makes.
MatchedReplies(f) ==
    {r \in RepliesOf(f) : replies[r].content.kind # "noCommand"}

\* How often fn was called for frame f.
RunsOf(f) == Cardinality({t \in TasksOf(f) : tasks[t].ran > 0})

\* C39: a post matches at most one command subscriber and has fn called at
\* most once, and 'not found' and 'matched' exclude each other: a post with
\* a task or with a ban, authorization, parse-error, handler or failure
\* reply has no command-not-found notice, and a post with the notice matched
\* no command.
C39_NotFoundOrMatched ==
    \A f \in PostFrames :
        /\ Cardinality(Matched(f)) <= 1
        /\ Cardinality(TasksOf(f)) <= 1
        /\ RunsOf(f) <= 1
        /\ \A t \in TasksOf(f) : tasks[t].ran <= 1 /\ tasks[t].sub \in Matched(f)
        /\ (TasksOf(f) # {} \/ MatchedReplies(f) # {}) => Matched(f) # {}
        /\ Matched(f) # {} => NoticesOf(f) = {}
        /\ NoticesOf(f) # {} => TasksOf(f) = {} /\ MatchedReplies(f) = {}

\* C39 witness: with add among two or more commands, a post had fn called
\* once and no notice was made.
C39_Witness ==
    \E f \in PostFrames :
        /\ RunsOf(f) = 1
        /\ NoticesOf(f) = {}
        /\ \E k \in 1..Len(commands) : commands[k].name = <<"add">>
        /\ Len(commands) >= 2

\* The subscriber of the help command the constructor registers.
BuiltInHelp == CommandSub(<<"help">>, FALSE, <<>>, "help")

\* The constructor registered the help command (options.help was not false).
HasBuiltInHelp == Len(events.post) >= 2 /\ events.post[2] = BuiltInHelp

\* The command() calls for the name help that returned.
HelpCalls == {k \in 1..Len(calls) : calls[k].sub.name = <<"help">>}

\* C40: the constructor leaves either the command help alone in the list,
\* with its subscriber after the command-not-found subscriber, or (help:
\* false) an empty list and the command-not-found subscriber only.  The
\* command-not-found subscriber stays first.  With the built-in help no
\* command() call for help ever returns, and one that fails changes nothing;
\* without it at most one such call returns.
C40_BuiltInHelp ==
    /\ \/ /\ commands = <<Command(<<"help">>, FALSE, <<>>)>>
          /\ events.post = <<NoCommandSub, BuiltInHelp>>
       \/ /\ commands = <<>>
          /\ events.post = <<NoCommandSub>>
    /\ [](/\ events.post[1] = NoCommandSub
          /\ \A k \in 2..Len(events.post) : events.post[k] # NoCommandSub
          /\ HasBuiltInHelp
                => /\ commands[1] = Command(<<"help">>, FALSE, <<>>)
                   /\ HelpCalls = {}
          /\ ~HasBuiltInHelp => Cardinality(HelpCalls) <= 1
          /\ Cardinality({k \in 1..Len(commands) : commands[k].name = <<"help">>})
                = IF HasBuiltInHelp \/ HelpCalls # {} THEN 1 ELSE 0)
    /\ [][(HasBuiltInHelp /\ Len(commands) = 1 /\ conns = <<>>
              /\ lastCall' = "duplicate")
             => UNCHANGED <<commands, events, calls>>]_vars

\* C40 witness: with the built-in help, a command() call failed as a
\* duplicate while help was the only command, which only a call for help
\* can.
C40_Witness ==
    /\ HasBuiltInHelp
    /\ Len(commands) = 1
    /\ lastCall = "duplicate"
    /\ conns = <<>>

====
